---- MODULE Spec2Model ----
(***************************************************************************)
(* Model of the Stryker live-chat bot (src/stryker): the quota-free chat   *)
(* reader, the welcome tracker with its JSON store, the command router     *)
(* with cooldowns, the poll parser and the orchestration loop.             *)
(*                                                                         *)
(* Texts are sequences of one-character strings so that strip(), lower(),  *)
(* startswith(), split() and the quoted-string regex are computed, not     *)
(* assumed.  Python's None is the value None below.  Times are whole       *)
(* seconds of time.time().                                                 *)
(***************************************************************************)
EXTENDS Integers, Sequences, FiniteSets, TLC

VARIABLES
    commands_file,      \* contents of commands.json
    lookup,             \* CommandRouter._lookup
    cooldowns,          \* CommandRouter._cooldowns
    loading,            \* the table built by a reload() that has not assigned it yet
    now,                \* time.time()
    store,              \* contents of data/welcomed_<chat>.json
    seen,               \* WelcomeTracker._seen
    bot_channel_id,     \* WelcomeTracker._bot_channel_id
    owner_channel_id,   \* WelcomeTracker._owner_channel_id
    continuation,       \* LiveChatReader._continuation
    seen_ids,           \* LiveChatReader._seen_ids
    session_open,       \* LiveChatReader._session not yet closed
    running,            \* StrykerBot.running
    initial_fetch,      \* StrykerBot._initial_fetch
    pc,                 \* where the thread inside start()/_poll_loop() stands
    batch,              \* messages of the current cycle not yet processed
    interval,           \* the wait returned by the current cycle's poll()
    manager,            \* BotManager: _running, _bot, _start_time, _error, _thread
    threads,            \* the threads BotManager.start() created and their bots
    last,               \* observation: the last call made and what it returned
    outs,               \* observation: what _process_message did for the last message
    hist                \* observation: facts about earlier calls the claims refer to

routerVars  == <<commands_file, lookup, cooldowns, loading>>
trackerVars == <<store, seen, bot_channel_id, owner_channel_id>>
readerVars  == <<continuation, seen_ids, session_open>>
botVars     == <<running, initial_fetch, pc, batch, interval>>
managerVars == <<manager, threads>>
obsVars     == <<last, outs, hist>>
vars == <<commands_file, lookup, cooldowns, loading, now, store, seen, bot_channel_id,
          owner_channel_id, continuation, seen_ids, session_open, running,
          initial_fetch, pc, batch, interval, manager, threads, last, outs, hist>>

None == "None"

(***************************************************************************)
(* Bounds of the model.                                                    *)
(***************************************************************************)
MaxTime == 2          \* the clock stops advancing here
MaxLives == 2         \* how often the tracker is re-created on its store
MaxActions == 2       \* events in one response
MaxTokens == 6        \* pieces a poll text is put together from
MaxThreads == 2       \* bot threads the manager creates

(***************************************************************************)
(* str helpers.                                                            *)
(***************************************************************************)
IsSpace(c) == c \in {" ", "\t"}

Uppers == <<"A", "B", "D", "E", "H", "L", "O", "P", "Q", "R">>
Lowers == <<"a", "b", "d", "e", "h", "l", "o", "p", "q", "r">>

LowerChar(c) ==
    IF \E i \in DOMAIN Uppers : Uppers[i] = c
      THEN Lowers[CHOOSE i \in DOMAIN Uppers : Uppers[i] = c]
      ELSE c

Lower(s) == [i \in 1..Len(s) |-> LowerChar(s[i])]

RECURSIVE LStrip(_)
LStrip(s) == IF s # <<>> /\ IsSpace(Head(s)) THEN LStrip(Tail(s)) ELSE s

RECURSIVE RStrip(_)
RStrip(s) ==
    IF s # <<>> /\ IsSpace(s[Len(s)]) THEN RStrip(SubSeq(s, 1, Len(s) - 1)) ELSE s

Strip(s) == RStrip(LStrip(s))

StartsWith(s, p) == Len(s) >= Len(p) /\ SubSeq(s, 1, Len(p)) = p

RECURSIVE TakeWord(_)
TakeWord(s) ==
    IF s = <<>> \/ IsSpace(Head(s)) THEN <<>> ELSE <<Head(s)>> \o TakeWord(Tail(s))

\* s.split()[0] if s.split() else ""
FirstWord(s) == TakeWord(LStrip(s))

(***************************************************************************)
(* config.py                                                               *)
(***************************************************************************)
BOT_PREFIX == <<"/">>
\* cooldown_seconds of config.json (5 when not configured)
COOLDOWN_SECONDS == 2

(***************************************************************************)
(* commands.py                                                             *)
(***************************************************************************)
EmptyDict == <<>>

DictPut(d, k, v) == [x \in (DOMAIN d) \cup {k} |-> IF x = k THEN v ELSE d[x]]

DictGet(d, k) == IF k \in DOMAIN d THEN d[k] ELSE None

RECURSIVE AddAliases(_, _, _)
AddAliases(d, aliases, reply) ==
    IF aliases = <<>> THEN d
    ELSE LET alias_lower == Strip(Lower(Head(aliases)))
         IN  AddAliases(IF alias_lower # <<>> THEN DictPut(d, alias_lower, reply) ELSE d,
                        Tail(aliases), reply)

RECURSIVE LoadList(_, _)
LoadList(d, cmds) ==
    IF cmds = <<>> THEN d
    ELSE LET cmd    == Head(cmds)
             action == Strip(Lower(cmd.action))
             d1     == IF action # <<>> THEN DictPut(d, action, cmd.reply) ELSE d
         IN  LoadList(AddAliases(d1, cmd.aliases, cmd.reply), Tail(cmds))

load_commands(file) ==
    IF file.kind \in {"missing", "invalid"} THEN EmptyDict
    ELSE LoadList(EmptyDict, file.cmds)

\* _load_commands without the except clause for json.JSONDecodeError
LoadRaises_InvalidToo(file) == file.kind \in {"badshape", "invalid"}

\* cmd.get(...) raises AttributeError (or the for loop TypeError) when the
\* JSON value is not a list of objects; _load_commands does not catch it
LoadRaises(file) == file.kind = "badshape"

\* no reload() in progress
NotLoading == [none |-> TRUE]

is_on_cooldown_Inclusive(cds, command_key, t) ==
    IF command_key \notin DOMAIN cds THEN FALSE
    ELSE (t - cds[command_key]) <= COOLDOWN_SECONDS

is_on_cooldown(cds, command_key, t) ==
    IF command_key \notin DOMAIN cds THEN FALSE
    ELSE (t - cds[command_key]) < COOLDOWN_SECONDS

\* match that records the usage time also when the trigger is on cooldown
match_StampAlways(lk, cds, text, t) ==
    LET text_clean   == Lower(Strip(text))
        command_word == FirstWord(text_clean)
        reply        == DictGet(lk, command_word)
    IN  IF ~StartsWith(text_clean, BOT_PREFIX)
          THEN [ret |-> None, cooldowns |-> cds]
        ELSE IF reply = None
          THEN [ret |-> None, cooldowns |-> cds]
        ELSE IF is_on_cooldown(cds, command_word, t)
          THEN [ret |-> None, cooldowns |-> DictPut(cds, command_word, t)]
        ELSE [ret |-> reply, cooldowns |-> DictPut(cds, command_word, t)]

\* match that compares the text as typed, without lower()
match_CaseSensitive(lk, cds, text, t) ==
    LET text_clean   == Strip(text)
        command_word == FirstWord(text_clean)
        reply        == DictGet(lk, command_word)
    IN  IF ~StartsWith(text_clean, BOT_PREFIX)
          THEN [ret |-> None, cooldowns |-> cds]
        ELSE IF reply = None
          THEN [ret |-> None, cooldowns |-> cds]
        ELSE IF is_on_cooldown(cds, command_word, t)
          THEN [ret |-> None, cooldowns |-> cds]
        ELSE [ret |-> reply, cooldowns |-> DictPut(cds, command_word, t)]

\* match that forgets to record the usage time
match_NoStamp(lk, cds, text, t) ==
    LET text_clean   == Lower(Strip(text))
        command_word == FirstWord(text_clean)
        reply        == DictGet(lk, command_word)
    IN  IF ~StartsWith(text_clean, BOT_PREFIX)
          THEN [ret |-> None, cooldowns |-> cds]
        ELSE IF reply = None
          THEN [ret |-> None, cooldowns |-> cds]
        ELSE IF is_on_cooldown(cds, command_word, t)
          THEN [ret |-> None, cooldowns |-> cds]
        ELSE [ret |-> reply, cooldowns |-> cds]

\* match(text) at time t: the value returned and the cooldown table left behind
match(lk, cds, text, t) ==
    LET text_clean   == Lower(Strip(text))
        command_word == FirstWord(text_clean)
        reply        == DictGet(lk, command_word)
    IN  IF ~StartsWith(text_clean, BOT_PREFIX)
          THEN [ret |-> None, cooldowns |-> cds]
        ELSE IF reply = None
          THEN [ret |-> None, cooldowns |-> cds]
        ELSE IF is_on_cooldown(cds, command_word, t)
          THEN [ret |-> None, cooldowns |-> cds]
        ELSE [ret |-> reply, cooldowns |-> DictPut(cds, command_word, t)]

(***************************************************************************)
(* Inputs: chat texts and definitions files.                               *)
(***************************************************************************)
TxtHi       == <<"h", "i">>
TxtHelp     == <<"/", "h", "e", "l", "p">>
TxtHelpUp   == <<" ", "/", "H", "E", "L", "P", " ", "h", "i">>
TxtH        == <<"/", "h">>
TxtReload   == <<"/", "r", "e", "l", "o", "a", "d">>
TxtReloadUp == <<" ", "/", "R", "e", "l", "o", "a", "d", " ">>
TxtPolls    == <<"/", "p", "o", "l", "l", "s">>
TxtPollOk   == <<"/", "P", "o", "l", "l", " ", "\"", "Q", "\"", " ",
                 "\"", "A", "\"", " ", "\"", "B", "\"">>

FileMissing == [kind |-> "missing", cmds |-> <<>>]
FileInvalid == [kind |-> "invalid", cmds |-> <<>>]
\* valid JSON that is not a list of definition objects, e.g. {"a": 1}
FileBadShape == [kind |-> "badshape", cmds |-> <<>>]
\* a definition without a "reply" key gets the reply ""
FileA ==
    [kind |-> "list",
     cmds |-> << [action |-> <<"/", "H", "e", "l", "p", " ">>, reply |-> "R1",
                  aliases |-> << TxtH >>],
                 [action |-> TxtPolls, reply |-> "", aliases |-> <<>>] >>]
FileB ==
    [kind |-> "list",
     cmds |-> << [action |-> TxtHelp, reply |-> "R2", aliases |-> <<>>],
                 [action |-> TxtPolls, reply |-> "R3", aliases |-> <<>>] >>]

(***************************************************************************)
(* utils/storage.py: the JSON file behind the welcome tracker.  The file   *)
(* is absent, unparseable, or holds a JSON array.  A save can succeed,     *)
(* fail at open() (file untouched) or fail after open() truncated the      *)
(* file (IOError is caught and logged in both cases).                      *)
(***************************************************************************)
IdOrder == <<"", "UCa", "UCb", "UCbot", "UCown">>      \* channel ids in str order

Range(q) == {q[i] : i \in DOMAIN q}

IsIn(S, x) == x \in S

\* sorted(list(data))
SortedList(S) == SelectSeq(IdOrder, LAMBDA x : IsIn(S, x))

FileAbsent  == [kind |-> "absent", data |-> <<>>]
FileCorrupt == [kind |-> "corrupt", data |-> <<>>]

SaveOutcomes == {"ok", "open_failed", "write_failed"}

save(file, data, io) ==
    CASE io = "ok"           -> [kind |-> "json", data |-> data]
      [] io = "open_failed"  -> file
      [] io = "write_failed" -> FileCorrupt

load(file, default) == IF file.kind = "json" THEN file.data ELSE default

load_set(file) == Range(load(file, <<>>))

save_set(file, S, io) == save(file, SortedList(S), io)

(***************************************************************************)
(* features/welcome.py                                                     *)
(***************************************************************************)
persist(file, S, io) == save_set(file, S, io)

is_new_NoRecord(S, file, bot, owner, channel_id, io) ==
    IF channel_id \in {bot, owner}
      THEN [ret |-> FALSE, seen |-> S, store |-> file]
    ELSE IF channel_id \in S
      THEN [ret |-> FALSE, seen |-> S, store |-> file]
    ELSE [ret |-> TRUE, seen |-> S, store |-> file]

\* is_new that rewrites the store also for the bot's and the owner's id
is_new_PersistExcluded(S, file, bot, owner, channel_id, io) ==
    IF channel_id \in {bot, owner}
      THEN [ret |-> FALSE, seen |-> S, store |-> persist(file, S, io)]
    ELSE IF channel_id \in S
      THEN [ret |-> FALSE, seen |-> S, store |-> file]
    ELSE [ret |-> TRUE, seen |-> S \cup {channel_id},
          store |-> persist(file, S \cup {channel_id}, io)]

is_new(S, file, bot, owner, channel_id, io) ==
    IF channel_id \in {bot, owner}
      THEN [ret |-> FALSE, seen |-> S, store |-> file]
    ELSE IF channel_id \in S
      THEN [ret |-> FALSE, seen |-> S, store |-> file]
    ELSE [ret |-> TRUE, seen |-> S \cup {channel_id},
          store |-> persist(file, S \cup {channel_id}, io)]

RECURSIVE SeedLoop(_, _)
SeedLoop(S, messages) ==
    IF messages = <<>> THEN S
    ELSE LET channel_id == Head(messages).channel_id
         IN  SeedLoop(IF channel_id # "" /\ channel_id \notin S
                        THEN S \cup {channel_id} ELSE S,
                      Tail(messages))

\* seed_from_history that records the ids in memory only
seed_from_history_NoPersist(S, file, messages, io) ==
    [seen |-> SeedLoop(S, messages), store |-> file]

seed_from_history(S, file, messages, io) ==
    LET S2      == SeedLoop(S, messages)
        new_ids == Cardinality(S2) - Cardinality(S)
    IN  [seen |-> S2, store |-> IF new_ids > 0 THEN persist(file, S2, io) ELSE file]

\* set_*_channel_id that starts the set over with the one id
set_channel_id_Reset(S, file, channel_id, io) ==
    [seen |-> {channel_id}, store |-> persist(file, {channel_id}, io)]

set_channel_id(S, file, channel_id, io) ==
    [seen |-> S \cup {channel_id}, store |-> persist(file, S \cup {channel_id}, io)]

(***************************************************************************)
(* core/chat_reader.py.  An event of a response is a record                *)
(*   [shape, id, channel_id, name, text, badges]:                          *)
(* shape "text" is an addChatItemAction with a liveChatTextMessageRenderer,*)
(* "other" any other well-formed action, "broken" an action whose parsing  *)
(* raises inside _parse_action, and "badid" a text message whose id is not *)
(* hashable, so that the membership test in poll() raises.  Waits are in   *)
(* milliseconds.                                                           *)
(***************************************************************************)
\* poll() cuts the seen-id set to 2000 ids once it holds more than 5000; the
\* model keeps the rule and scales the two sizes down
SEEN_CAP  == 2
SEEN_KEEP == 1
FALLBACK_WAIT == 5000
MIN_WAIT == 1000

NoMsg == [none |-> TRUE]          \* the None that _parse_action returns

\* the value of a key that the renderer of an event does not carry
NoField == "no field"

\* renderer.get(key, ""): the empty string for a key that is absent
GetField(value) == IF value = NoField THEN "" ELSE value

parse_action(action) ==
    IF action.shape \in {"other", "broken"} THEN NoMsg
    ELSE IF action.text = <<>> THEN NoMsg
    ELSE [id           |-> GetField(action.id),
          channel_id   |-> GetField(action.channel_id),
          display_name |-> action.name,
          message      |-> action.text,
          is_owner     |-> "OWNER" \in action.badges,
          is_moderator |-> "MODERATOR" \in action.badges,
          is_member    |-> "MEMBER" \in action.badges]

\* the for loop of poll(): the ids recorded, the messages kept, and whether
\* the loop raised
RECURSIVE PollLoop(_, _, _)
PollLoop(ids, messages, actions) ==
    IF actions = <<>> THEN [seen_ids |-> ids, messages |-> messages, raised |-> FALSE]
    ELSE LET msg == parse_action(Head(actions))
         IN  IF msg = NoMsg THEN PollLoop(ids, messages, Tail(actions))
             ELSE IF Head(actions).shape = "badid"
               THEN [seen_ids |-> ids, messages |-> messages, raised |-> TRUE]
             ELSE IF msg.id \notin ids
               THEN PollLoop(ids \cup {msg.id}, Append(messages, msg), Tail(actions))
             ELSE PollLoop(ids, messages, Tail(actions))

\* set(list(ids)[-2000:]): a set has no insertion order, any SEEN_KEEP of
\* the ids can be the ones kept
CapOutcomes(ids) ==
    IF Cardinality(ids) > SEEN_CAP
      THEN {K \in SUBSET ids : Cardinality(K) = SEEN_KEEP}
      ELSE {ids}

NoBlock == [c |-> None, tk |-> "absent", t |-> 0]

\* _update_continuation: the handle stored afterwards and whether it raised
RECURSIVE update_continuation(_, _)
update_continuation(handle, continuations) ==
    IF continuations = <<>> THEN [continuation |-> handle, raised |-> FALSE]
    ELSE LET cont == Head(continuations)
         IN  IF cont.kind = "bad" THEN [continuation |-> handle, raised |-> TRUE]
             ELSE IF cont.inv.c \notin {None, ""}
               THEN [continuation |-> cont.inv.c, raised |-> FALSE]
             ELSE IF cont.timed.c \notin {None, ""}
               THEN [continuation |-> cont.timed.c, raised |-> FALSE]
             ELSE update_continuation(handle, Tail(continuations))

Max(a, b) == IF a >= b THEN a ELSE b

\* BlockInterval without the floor of one second
BlockInterval_NoFloor(b) ==
    IF b.tk = "bad" THEN [found |-> TRUE, interval |-> 0, raised |-> TRUE]
    ELSE IF b.tk = "num" /\ b.t # 0
      THEN [found |-> TRUE, interval |-> b.t, raised |-> FALSE]
    ELSE [found |-> FALSE, interval |-> 0, raised |-> FALSE]

BlockInterval(b) ==
    IF b.tk = "bad" THEN [found |-> TRUE, interval |-> 0, raised |-> TRUE]
    ELSE IF b.tk = "num" /\ b.t # 0
      THEN [found |-> TRUE, interval |-> Max(b.t, MIN_WAIT), raised |-> FALSE]
    ELSE [found |-> FALSE, interval |-> 0, raised |-> FALSE]

RECURSIVE get_polling_interval(_)
get_polling_interval(continuations) ==
    IF continuations = <<>> THEN [interval |-> FALLBACK_WAIT, raised |-> FALSE]
    ELSE LET cont == Head(continuations)
         IN  IF cont.kind = "bad" THEN [interval |-> 0, raised |-> TRUE]
             ELSE LET i == BlockInterval(cont.inv)
                      j == BlockInterval(cont.timed)
                  IN  IF i.found THEN [interval |-> i.interval, raised |-> i.raised]
                      ELSE IF j.found THEN [interval |-> j.interval, raised |-> j.raised]
                      ELSE get_polling_interval(Tail(continuations))

\* the early return of poll() on a missing handle
NotConnected(handle, ids) ==
    [messages |-> <<>>, interval |-> FALLBACK_WAIT, continuation |-> handle,
     seen_ids |-> ids, raised |-> FALSE, degraded |-> TRUE]

PollExcept_RequestOnly(exc, handle, ids) ==
    CASE exc = "RequestException" ->
           [messages |-> <<>>, interval |-> FALLBACK_WAIT, continuation |-> handle,
            seen_ids |-> ids, raised |-> FALSE, degraded |-> TRUE]
      [] OTHER ->
           [messages |-> <<>>, interval |-> 0, continuation |-> handle,
            seen_ids |-> ids, raised |-> TRUE, degraded |-> FALSE]

\* the except clauses of poll(): requests.RequestException, then Exception
PollExcept(exc, handle, ids) ==
    CASE exc = "RequestException" ->
           [messages |-> <<>>, interval |-> FALLBACK_WAIT, continuation |-> handle,
            seen_ids |-> ids, raised |-> FALSE, degraded |-> TRUE]
      [] OTHER ->
           [messages |-> <<>>, interval |-> FALLBACK_WAIT, continuation |-> handle,
            seen_ids |-> ids, raised |-> FALSE, degraded |-> TRUE]

\* the exception the exchange itself raises for a fault of the response
FaultException(fault) ==
    IF fault \in {"network", "http_status"} THEN "RequestException" ELSE "Exception"

\* poll(): all outcomes for one response (more than one only when the
\* seen-id cap cuts the set)
\* poll that forgets the handle when the exchange fails
poll_DropHandle(handle, ids, resp) ==
    IF handle \in {None, ""} THEN {NotConnected(handle, ids)}
    ELSE IF resp.fault # "none"
      THEN {PollExcept(FaultException(resp.fault), None, ids)}
    ELSE LET lp == PollLoop(ids, <<>>, resp.actions)
         IN  IF lp.raised THEN {PollExcept("Exception", handle, lp.seen_ids)}
             ELSE { LET uc == update_continuation(handle, resp.continuations)
                        gi == get_polling_interval(resp.continuations)
                    IN  IF uc.raised THEN PollExcept("Exception", handle, kept)
                        ELSE IF gi.raised
                          THEN PollExcept("Exception", uc.continuation, kept)
                        ELSE [messages |-> lp.messages, interval |-> gi.interval,
                              continuation |-> uc.continuation, seen_ids |-> kept,
                              raised |-> FALSE, degraded |-> FALSE]
                    : kept \in CapOutcomes(lp.seen_ids) }

poll(handle, ids, resp) ==
    IF handle \in {None, ""} THEN {NotConnected(handle, ids)}
    ELSE IF resp.fault # "none"
      THEN {PollExcept(FaultException(resp.fault), handle, ids)}
    ELSE LET lp == PollLoop(ids, <<>>, resp.actions)
         IN  IF lp.raised THEN {PollExcept("Exception", handle, lp.seen_ids)}
             ELSE { LET uc == update_continuation(handle, resp.continuations)
                        gi == get_polling_interval(resp.continuations)
                    IN  IF uc.raised THEN PollExcept("Exception", handle, kept)
                        ELSE IF gi.raised
                          THEN PollExcept("Exception", uc.continuation, kept)
                        ELSE [messages |-> lp.messages, interval |-> gi.interval,
                              continuation |-> uc.continuation, seen_ids |-> kept,
                              raised |-> FALSE, degraded |-> FALSE]
                    : kept \in CapOutcomes(lp.seen_ids) }

(***************************************************************************)
(* Values of the variables a specification does not use.                   *)
(***************************************************************************)
RouterIdle ==
    /\ commands_file = FileMissing
    /\ lookup = EmptyDict
    /\ cooldowns = EmptyDict
    /\ loading = NotLoading

TrackerIdle ==
    /\ store = FileAbsent
    /\ seen = {}
    /\ bot_channel_id = None
    /\ owner_channel_id = None

ReaderIdle ==
    /\ continuation = None
    /\ seen_ids = {}
    /\ session_open = TRUE

BotIdle ==
    /\ running = FALSE
    /\ initial_fetch = TRUE
    /\ pc = "idle"
    /\ batch = <<>>
    /\ interval = 0

(***************************************************************************)
(* web/bot_manager.py.  manager.bot and manager.thread name a thread of    *)
(* Threads (the StrykerBot that thread created, the Thread object), 0 is   *)
(* None; manager.start_time is -1 for None.  A thread is at "new" before   *)
(* it is created, then inside _run_bot at "auth", "created" (self._bot     *)
(* assigned), "starting" (self._running set, inside StrykerBot.start()     *)
(* before the loop), "loop", "finally", and "dead" when _run_bot has       *)
(* returned; threads[t].running is the running flag of its StrykerBot.     *)
(***************************************************************************)
Threads == 1..MaxThreads

NewManager ==
    [running |-> FALSE, bot |-> 0, start_time |-> -1, error |-> None, thread |-> 0]

NewThread == [at |-> "new", running |-> FALSE]

ManagerIdle ==
    /\ manager = NewManager
    /\ threads = [t \in Threads |-> NewThread]

(***************************************************************************)
(* SpecRouter: the command router on its own.  The loop thread calls       *)
(* match(); reload() is called by the loop thread (the owner's reload      *)
(* directive) and by the dashboard thread (api_set_commands), which first  *)
(* rewrites commands.json; time passes.  reload() is two steps, so that    *)
(* match() and a rewrite of the file can fall between the moment           *)
(* _load_commands has read the file and the assignment of self._lookup.    *)
(* A rewrite in progress is a file that is not valid JSON.                 *)
(***************************************************************************)
RouterFiles == {FileMissing, FileInvalid, FileBadShape, FileA, FileB}
\* files on which CommandRouter() can be constructed
RouterInitFiles == {f \in RouterFiles : ~LoadRaises(f)}
RouterTexts == {TxtHi, TxtHelp, TxtHelpUp, TxtH, TxtReload}

(***************************************************************************)
(* Observation: hist.okAt is the time of the last match() that returned    *)
(* the reply, per trigger; hist.suppressed the triggers a match() was      *)
(* refused for; hist.reading the file contents the reload in progress has  *)
(* read and hist.source those the table in use was built from;             *)
(* hist.reloaded the triggers whose last successful match() was followed   *)
(* by a completed reload().                                                *)
(***************************************************************************)
InitRouter ==
    /\ commands_file \in RouterInitFiles
    /\ lookup = load_commands(commands_file)
    /\ cooldowns = EmptyDict
    /\ loading = NotLoading
    /\ now = 0
    /\ TrackerIdle /\ ReaderIdle /\ BotIdle /\ ManagerIdle
    /\ last = [op |-> "init"]
    /\ outs = <<>>
    /\ hist = [okAt |-> EmptyDict, suppressed |-> {}, reading |-> commands_file,
               source |-> commands_file, reloaded |-> {}]

Match(text) ==
    LET r    == match(lookup, cooldowns, text, now)
        word == FirstWord(Lower(Strip(text)))
    IN  /\ cooldowns' = r.cooldowns
        /\ last' = [op |-> "match", text |-> text, word |-> word, at |-> now,
                    ret |-> r.ret,
                    known |-> word \in DOMAIN lookup,
                    prefixed |-> StartsWith(Lower(Strip(text)), BOT_PREFIX),
                    reply |-> DictGet(lookup, word),
                    prevOk |-> IF word \in DOMAIN hist.okAt THEN hist.okAt[word] ELSE -1,
                    afterReload |-> word \in hist.reloaded]
        /\ hist' = [hist EXCEPT
                       !.okAt = IF r.ret # None THEN DictPut(@, word, now) ELSE @,
                       !.suppressed = IF r.ret = None /\ word \in DOMAIN lookup
                                        THEN @ \cup {word} ELSE @,
                       !.reloaded = IF r.ret # None THEN @ \ {word} ELSE @]
        /\ UNCHANGED <<managerVars, commands_file, lookup, loading, now, trackerVars, readerVars,
                       botVars, outs>>

\* reload(), first half: _load_commands reads the file and builds its local
\* table, or raises on JSON of another shape, which ends the reload
ReloadLoad ==
    /\ loading = NotLoading
    /\ IF LoadRaises(commands_file)
         THEN /\ last' = [op |-> "reload", raised |-> TRUE, read |-> commands_file,
                          before |-> DOMAIN lookup]
              /\ UNCHANGED <<loading, hist>>
         ELSE /\ loading' = [table |-> load_commands(commands_file)]
              /\ last' = [op |-> "load"]
              /\ hist' = [hist EXCEPT !.reading = commands_file]
    /\ UNCHANGED <<managerVars, commands_file, lookup, cooldowns, now, trackerVars, readerVars,
                   botVars, outs>>

\* reload() that adds the new triggers to the table in use
ReloadAssign_Merge ==
    /\ loading # NotLoading
    /\ lookup' = [w \in (DOMAIN lookup) \cup (DOMAIN loading.table) |->
                    IF w \in DOMAIN loading.table THEN loading.table[w] ELSE lookup[w]]
    /\ loading' = NotLoading
    /\ last' = [op |-> "reload", raised |-> FALSE, read |-> hist.reading,
                before |-> DOMAIN lookup]
    /\ hist' = [hist EXCEPT !.source = hist.reading, !.reloaded = DOMAIN hist.okAt]
    /\ UNCHANGED <<managerVars, commands_file, cooldowns, now, trackerVars, readerVars, botVars,
                   outs>>

\* reload() that also forgets the usage times
ReloadAssign_ResetCooldowns ==
    /\ loading # NotLoading
    /\ lookup' = loading.table
    /\ cooldowns' = EmptyDict
    /\ loading' = NotLoading
    /\ last' = [op |-> "reload", raised |-> FALSE, read |-> hist.reading,
                before |-> DOMAIN lookup]
    /\ hist' = [hist EXCEPT !.source = hist.reading, !.reloaded = DOMAIN hist.okAt]
    /\ UNCHANGED <<managerVars, commands_file, now, trackerVars, readerVars, botVars, outs>>

\* reload() that drops the stamps of the triggers the new table lacks
ReloadAssign_Prune ==
    /\ loading # NotLoading
    /\ lookup' = loading.table
    /\ cooldowns' = [w \in (DOMAIN cooldowns) \cap (DOMAIN loading.table) |->
                       cooldowns[w]]
    /\ loading' = NotLoading
    /\ last' = [op |-> "reload", raised |-> FALSE, read |-> hist.reading,
                before |-> DOMAIN lookup]
    /\ hist' = [hist EXCEPT !.source = hist.reading, !.reloaded = DOMAIN hist.okAt]
    /\ UNCHANGED <<managerVars, commands_file, now, trackerVars, readerVars, botVars, outs>>

\* reload(), second half: self._lookup = <the table built>
ReloadAssign ==
    /\ loading # NotLoading
    /\ lookup' = loading.table
    /\ loading' = NotLoading
    /\ last' = [op |-> "reload", raised |-> FALSE, read |-> hist.reading,
                before |-> DOMAIN lookup]
    /\ hist' = [hist EXCEPT !.source = hist.reading, !.reloaded = DOMAIN hist.okAt]
    /\ UNCHANGED <<managerVars, commands_file, cooldowns, now, trackerVars, readerVars, botVars,
                   outs>>

\* api_set_commands up to the rewrite of commands.json
WriteCommandsFile(f) ==
    /\ commands_file' = f
    /\ last' = [op |-> "write"]
    /\ outs' = <<>>
    /\ UNCHANGED <<managerVars, lookup, cooldowns, loading, now, trackerVars, readerVars, botVars,
                   hist>>

\* a second passes; the observation of the last call is dropped
Tick ==
    /\ now < MaxTime
    /\ now' = now + 1
    /\ last' = [op |-> "tick"]
    /\ outs' = <<>>
    /\ UNCHANGED <<managerVars, routerVars, trackerVars, readerVars, botVars, hist>>

NextRouter ==
    \/ \E text \in RouterTexts : Match(text)
    \/ ReloadLoad
    \/ ReloadAssign
    \/ \E f \in RouterFiles : WriteCommandsFile(f)
    \/ Tick

SpecRouter == InitRouter /\ [][NextRouter]_vars

\* C5: with cooldown C, a match() on a known trigger that comes less than C
\* seconds after the last match() that returned the reply for that trigger
\* returns None, and one that comes C seconds or more after it returns the
\* trigger's reply.
C5_CooldownWindow ==
    (last.op = "match" /\ last.known /\ last.prefixed /\ last.prevOk >= 0) =>
        /\ (last.at - last.prevOk < COOLDOWN_SECONDS => last.ret = None)
        /\ (last.at - last.prevOk >= COOLDOWN_SECONDS => last.ret = last.reply)

C5_Witness ==
    /\ last.op = "match" /\ last.known /\ last.prefixed /\ last.prevOk >= 0
    /\ last.at - last.prevOk >= COOLDOWN_SECONDS
    /\ last.ret = last.reply /\ last.ret # None
    /\ last.word \in hist.suppressed

\* C24: match() changes state only by stamping the last-used time of the
\* matched trigger, and only when it returns the reply: a call that returns
\* None leaves the cooldown table and the command table unchanged, and a
\* successful call changes no entry other than that trigger's stamp.
C24_MatchFrame ==
    [][last'.op = "match" =>
          /\ lookup' = lookup
          /\ commands_file' = commands_file
          /\ (last'.ret = None => cooldowns' = cooldowns)
          /\ (last'.ret # None =>
                 cooldowns' = DictPut(cooldowns, last'.word, now))]_vars

\* a match refused on cooldown left the older stamp of its trigger and the
\* stamp of another trigger in place
C24_Witness ==
    /\ last.op = "match" /\ last.ret = None /\ last.known /\ last.prefixed
    /\ last.prevOk >= 0 /\ last.at > last.prevOk
    /\ cooldowns[last.word] = last.prevOk
    /\ Cardinality(DOMAIN cooldowns) = 2

NotOnCooldown ==
    last.prevOk < 0 \/ last.at - last.prevOk >= COOLDOWN_SECONDS

\* C25 as stated: match(text) returns None when the text does not start
\* with the prefix or when its first token, compared case-insensitively, is
\* not a trigger; for a known trigger not on cooldown it returns the
\* trigger's reply whatever the letter case.
C25_AsStated ==
    last.op = "match" =>
        /\ (~StartsWith(last.text, BOT_PREFIX) => last.ret = None)
        /\ (FirstWord(Lower(last.text)) \notin DOMAIN lookup => last.ret = None)
        /\ (StartsWith(last.text, BOT_PREFIX)
              /\ FirstWord(Lower(last.text)) \in DOMAIN lookup /\ NotOnCooldown
              => last.ret = lookup[FirstWord(Lower(last.text))])

\* C25 amended: the same with the text taken after removal of its leading
\* and trailing whitespace.
C25_PrefixGate ==
    last.op = "match" =>
        /\ (~StartsWith(Strip(last.text), BOT_PREFIX) => last.ret = None)
        /\ (FirstWord(Lower(Strip(last.text))) \notin DOMAIN lookup => last.ret = None)
        /\ (StartsWith(Strip(last.text), BOT_PREFIX)
              /\ FirstWord(Lower(Strip(last.text))) \in DOMAIN lookup /\ NotOnCooldown
              => last.ret = lookup[FirstWord(Lower(Strip(last.text)))])

\* a text in upper case with surrounding blanks and further words got the
\* reply of its trigger
C25_Witness ==
    /\ last.op = "match" /\ last.text = TxtHelpUp
    /\ last.ret # None /\ last.ret = lookup[TxtHelp]

\* C26: reload() leaves the cooldown table unchanged: a trigger whose key
\* exists before and after the reload keeps its stamp, so a match on it
\* within the cooldown window after the reload still returns None.
C26_ReloadKeepsCooldowns ==
    [][/\ (last'.op \in {"load", "reload"} => cooldowns' = cooldowns)
       /\ (last'.op = "match" /\ last'.afterReload /\ last'.known /\ last'.prefixed
             /\ last'.prevOk >= 0 /\ last'.at - last'.prevOk < COOLDOWN_SECONDS
             => last'.ret = None)]_vars

\* a match refused within the window of a stamp older than the last reload,
\* the reload having replaced the table
C26_Witness ==
    /\ last.op = "match" /\ last.afterReload /\ last.known /\ last.prefixed
    /\ last.prevOk >= 0 /\ last.at - last.prevOk < COOLDOWN_SECONDS
    /\ last.ret = None
    /\ hist.source = FileB /\ last.reply = "R2"

\* the triggers of a definitions file: every action and alias, lower-cased
\* and stripped, that is not empty
TriggersOf(file) ==
    IF file.kind # "list" THEN {}
    ELSE {w \in UNION { {Strip(Lower(file.cmds[i].action))} \cup
                        {Strip(Lower(file.cmds[i].aliases[j])) :
                            j \in DOMAIN file.cmds[i].aliases} :
                        i \in DOMAIN file.cmds } : w # <<>>}

\* C27: after reload() the table contains exactly the triggers of the
\* definitions source as read by that reload, with no trigger of the
\* previous table left over, also when the dashboard rewrites the source
\* and reloads while the loop thread is matching; and the table match()
\* sees at any moment is the complete table of one source.
C27_WholesaleReload ==
    /\ DOMAIN lookup = TriggersOf(hist.source)
    /\ lookup = load_commands(hist.source)
    /\ (last.op = "reload" /\ ~last.raised =>
          /\ hist.source = last.read
          /\ (last.before \ TriggersOf(last.read)) \cap DOMAIN lookup = {})

\* a reload replaced the table of FileA by that of FileB, dropping a
\* trigger, after the file it had read was rewritten again
C27_Witness ==
    /\ last.op = "reload" /\ ~last.raised /\ last.read = FileB
    /\ TxtH \in last.before /\ TxtH \notin DOMAIN lookup
    /\ commands_file # FileB

\* C28: loading or reloading from a definitions source that is missing or
\* not valid JSON yields an empty table and does not fail, and every later
\* match() returns None.
C28_EmptyOnBadSource ==
    /\ (hist.source.kind \in {"missing", "invalid"} => lookup = EmptyDict)
    /\ (last.op = "reload" /\ last.read.kind \in {"missing", "invalid"} =>
          ~last.raised /\ lookup = EmptyDict)
    /\ (last.op = "match" /\ hist.source.kind \in {"missing", "invalid"} =>
          last.ret = None)

\* a prefixed text was matched after a reload from invalid JSON had emptied
\* a table that knew its trigger
C28_Witness ==
    /\ last.op = "match" /\ hist.source = FileInvalid /\ last.word = TxtHelp
    /\ last.prevOk >= 0 /\ last.ret = None

\* C29: the cooldown is shared across all aliases of the same reply: after a
\* successful match on one trigger, a match on another alias of the same
\* reply within the cooldown window returns None.
C29_AsStated ==
    (last.op = "match" /\ last.known /\ last.prefixed) =>
        \A w \in (DOMAIN hist.okAt) \cap (DOMAIN lookup) :
            (w # last.word /\ lookup[w] = last.reply
               /\ last.at - hist.okAt[w] < COOLDOWN_SECONDS)
            => last.ret = None


(***************************************************************************)
(* SpecTracker: the welcome tracker and its store.  The tracker is         *)
(* constructed on the store, its operations are called in any order, and   *)
(* it is destroyed and constructed again on the same store.                *)
(***************************************************************************)
BotId   == "UCbot"
OwnerId == "UCown"
TrackerIds == {"", "UCa", BotId, OwnerId}

Msg(id, channel_id, text, badges) ==
    [id |-> id, channel_id |-> channel_id, display_name |-> "name", message |-> text,
     is_owner |-> "OWNER" \in badges, is_moderator |-> "MODERATOR" \in badges,
     is_member |-> "MEMBER" \in badges]

SeedAuthors == {"", "UCa"}
SeedBatches ==
    {<<>>} \cup {<<Msg("m1", a, TxtHi, {})>> : a \in SeedAuthors}
           \cup {<<Msg("m1", a, TxtHi, {}), Msg("m2", b, TxtHi, {})>> :
                   a \in SeedAuthors, b \in SeedAuthors}

AuthorsOf(messages) == {messages[i].channel_id : i \in DOMAIN messages}

Inc2(n) == IF n < 2 THEN n + 1 ELSE 2

(***************************************************************************)
(* The observation follows one author id, hist.who, chosen freely at the   *)
(* start: how often is_new was called with it on this tracker (calls) and  *)
(* on all trackers of the store (callsEver), counted up to 2; whether      *)
(* seeding or set_*_channel_id recorded it (fed, fedEver); and whether the *)
(* store held it when this tracker was constructed (loaded).               *)
(***************************************************************************)
InitTracker ==
    /\ store = FileAbsent
    /\ seen = load_set(store)
    /\ bot_channel_id = None
    /\ owner_channel_id = None
    /\ now = 0
    /\ RouterIdle /\ ReaderIdle /\ BotIdle /\ ManagerIdle
    /\ last = [op |-> "init"]
    /\ outs = <<>>
    /\ \E who \in TrackerIds :
          hist = [who |-> who, lives |-> 1, calls |-> 0, callsEver |-> 0,
                  fed |-> FALSE, fedEver |-> FALSE, loaded |-> FALSE,
                  seeded |-> FALSE]

\* WelcomeTracker(chat_id) constructed again on the same file
NewTracker ==
    /\ hist.lives < MaxLives
    /\ seen' = load_set(store)
    /\ bot_channel_id' = None
    /\ owner_channel_id' = None
    /\ last' = [op |-> "new"]
    /\ hist' = [hist EXCEPT !.lives = @ + 1, !.calls = 0, !.fed = FALSE,
                            !.loaded = hist.who \in load_set(store),
                            !.seeded = FALSE]
    /\ UNCHANGED <<managerVars, store, now, routerVars, readerVars, botVars, outs>>

IsNew(channel_id, io) ==
    LET r == is_new(seen, store, bot_channel_id, owner_channel_id, channel_id, io)
    IN  /\ seen' = r.seen
        /\ store' = r.store
        /\ last' = [op |-> "is_new", id |-> channel_id, ret |-> r.ret,
                    excluded |-> channel_id \in {bot_channel_id, owner_channel_id},
                    wrote |-> IF channel_id \in {bot_channel_id, owner_channel_id}
                                   \/ channel_id \in seen
                                THEN "none" ELSE io]
        /\ hist' = IF channel_id = hist.who
                     THEN [hist EXCEPT !.calls = Inc2(@), !.callsEver = Inc2(@)]
                     ELSE hist
        /\ UNCHANGED <<managerVars, bot_channel_id, owner_channel_id, now, routerVars, readerVars,
                       botVars, outs>>

SeedFromHistory(messages, io) ==
    LET r == seed_from_history(seen, store, messages, io)
    IN  /\ seen' = r.seen
        /\ store' = r.store
        /\ last' = [op |-> "seed", authors |-> AuthorsOf(messages),
                    wrote |-> IF SeedLoop(seen, messages) # seen THEN io ELSE "none"]
        /\ hist' = [hist EXCEPT
                       !.fed = @ \/ hist.who \in r.seen \ seen,
                       !.fedEver = @ \/ hist.who \in r.seen \ seen,
                       !.seeded = @ \/ hist.who \in AuthorsOf(messages)]
        /\ UNCHANGED <<managerVars, bot_channel_id, owner_channel_id, now, routerVars, readerVars,
                       botVars, outs>>

SetBotChannelId(io) ==
    LET r == set_channel_id(seen, store, BotId, io)
    IN  /\ bot_channel_id' = BotId
        /\ seen' = r.seen
        /\ store' = r.store
        /\ last' = [op |-> "set_bot", wrote |-> io]
        /\ hist' = IF hist.who = BotId
                     THEN [hist EXCEPT !.fed = TRUE, !.fedEver = TRUE]
                     ELSE hist
        /\ UNCHANGED <<managerVars, owner_channel_id, now, routerVars, readerVars, botVars, outs>>

SetOwnerChannelId(io) ==
    LET r == set_channel_id(seen, store, OwnerId, io)
    IN  /\ owner_channel_id' = OwnerId
        /\ seen' = r.seen
        /\ store' = r.store
        /\ last' = [op |-> "set_owner", wrote |-> io]
        /\ hist' = IF hist.who = OwnerId
                     THEN [hist EXCEPT !.fed = TRUE, !.fedEver = TRUE]
                     ELSE hist
        /\ UNCHANGED <<managerVars, bot_channel_id, now, routerVars, readerVars, botVars, outs>>

NextTracker ==
    \/ NewTracker
    \/ \E id \in TrackerIds, io \in SaveOutcomes : IsNew(id, io)
    \/ \E messages \in SeedBatches, io \in SaveOutcomes : SeedFromHistory(messages, io)
    \/ \E io \in SaveOutcomes : SetBotChannelId(io)
    \/ \E io \in SaveOutcomes : SetOwnerChannelId(io)

SpecTracker == InitTracker /\ [][NextTracker]_vars

IsNewOfWho == last.op = "is_new" /\ last.id = hist.who /\ ~last.excluded

\* C3 as stated: for an author id that is not the configured bot or owner
\* id, the first call of is_new (on an id never seeded or set) returns true
\* and every later call returns false, also after the tracker was re-created
\* on the same store.
C3_AsStated ==
    IsNewOfWho =>
        /\ (hist.callsEver = 1 /\ ~hist.fedEver => last.ret = TRUE)
        /\ (hist.callsEver > 1 => last.ret = FALSE)

\* C3 amended: within one tracker's lifetime the first call of is_new(A)
\* returns true (A neither loaded from the store nor seeded or set before)
\* and every later call returns false; and a re-created tracker returns
\* false for every id the store held when it was loaded.
C3_OncePerLifetime ==
    IsNewOfWho =>
        /\ (hist.calls = 1 /\ ~hist.fed /\ ~hist.loaded => last.ret = TRUE)
        /\ (hist.calls > 1 => last.ret = FALSE)
        /\ (hist.loaded => last.ret = FALSE)

C3_Witness ==
    /\ IsNewOfWho
    /\ hist.lives = 2 /\ hist.loaded /\ hist.callsEver = 2 /\ hist.calls = 1
    /\ ~hist.fedEver /\ last.ret = FALSE

\* C4: once seed_from_history was given a batch, is_new(A) returns false for
\* every author id A of a message of that batch, for the tracker that was
\* seeded.
C4_AsStated ==
    (last.op = "is_new" /\ last.id = hist.who /\ hist.seeded) => last.ret = FALSE

\* C21: once set_bot_channel_id / set_owner_channel_id were called,
\* is_new(id) for the bot's or the owner's id returns false and changes
\* neither the in-memory viewer set nor the backing store.
C21_ExcludedFrame ==
    [][(last'.op = "is_new" /\ last'.excluded) =>
          (last'.ret = FALSE /\ seen' = seen /\ store' = store)]_vars

\* is_new was called with the bot's id after set_bot_channel_id, and the
\* store does not hold that id (its save had failed)
C21_Witness ==
    /\ last.op = "is_new" /\ last.excluded /\ last.id = BotId
    /\ bot_channel_id = BotId
    /\ last.ret = FALSE
    /\ BotId \in seen /\ BotId \notin load_set(store)

\* C22: the viewer set only grows during the lifetime of a tracker: no call
\* of is_new, seed_from_history, set_bot_channel_id or set_owner_channel_id
\* removes an id from it.
C22_SetGrows ==
    [][last'.op \in {"is_new", "seed", "set_bot", "set_owner"} =>
          seen \subseteq seen']_vars

\* an id was just added by is_new to a set that holds seeded and set ids
C22_Witness ==
    /\ last.op = "is_new" /\ last.ret = TRUE /\ last.id = ""
    /\ {"", "UCa", BotId, OwnerId} \subseteq seen

ChangedSet == last'.op \in {"is_new", "seed", "set_bot", "set_owner"} /\ seen' # seen

\* C23 as stated: after every operation that changes the viewer set the
\* backing store holds exactly the ids of the in-memory set.
C23_AsStated ==
    [][ChangedSet => (store'.kind = "json" /\ load_set(store') = seen')]_vars

\* C23 amended: every operation that changes the viewer set rewrites the
\* store with the sorted ids of the whole set; when the write succeeds the
\* store holds exactly the ids of the set, when open() fails the store is
\* left as it was, and when the write fails after open() the file is left
\* unreadable.
C23_FullRewrite ==
    [][ChangedSet =>
          /\ last'.wrote \in SaveOutcomes
          /\ (last'.wrote = "ok" =>
                 store' = [kind |-> "json", data |-> SortedList(seen')]
                 /\ load_set(store') = seen')
          /\ (last'.wrote = "open_failed" => store' = store)
          /\ (last'.wrote = "write_failed" => store' = FileCorrupt)]_vars

\* a seeding that added ids was written out over a store that had missed
\* earlier ids
C23_Witness ==
    /\ last.op = "seed" /\ last.wrote = "ok"
    /\ Cardinality(seen) >= 3
    /\ store = [kind |-> "json", data |-> SortedList(seen)]
    /\ hist.fed

(***************************************************************************)
(* SpecReader: the chat reader on its own.  connect() and poll() are       *)
(* called in any order; each poll() receives any response of Responses.    *)
(***************************************************************************)
Event(shape, id, channel_id, text, badges) ==
    [shape |-> shape, id |-> id, channel_id |-> channel_id, name |-> "name",
     text |-> text, badges |-> badges]

ReaderMsgIds == {"m1", "m2", "m3"}

ReaderEvents ==
    {Event("text", id, "UCa", TxtHi, {}) : id \in ReaderMsgIds}
    \cup {Event("broken", "m3", "UCa", TxtHi, {}),
          Event("badid", "m3", "UCa", TxtHi, {})}

RECURSIVE SeqsUpTo(_, _)
SeqsUpTo(S, n) ==
    IF n = 0 THEN {<<>>}
    ELSE LET shorter == SeqsUpTo(S, n - 1)
         IN  shorter \cup {Append(q, x) : q \in shorter, x \in S}

Block(c, tk, t) == [c |-> c, tk |-> tk, t |-> t]
Entry(inv, timed) == [kind |-> "dict", inv |-> inv, timed |-> timed]
BadEntry == [kind |-> "bad", inv |-> NoBlock, timed |-> NoBlock]

ReaderContinuations ==
    { <<>>,
      << Entry(Block("c1", "num", 3000), NoBlock) >>,
      << Entry(NoBlock, Block("c2", "num", 500)) >>,
      << Entry(NoBlock, Block("c2", "absent", 0)) >>,
      << Entry(Block("c1", "absent", 0), Block("c2", "num", 8000)) >>,
      << Entry(NoBlock, Block("c2", "num", 2000)),
         Entry(Block("c1", "num", 4000), NoBlock) >>,
      << BadEntry >>,
      << Entry(Block("c1", "bad", 0), NoBlock) >>,
      << Entry(Block("c1", "num", 0), NoBlock) >> }

Faults == {"network", "http_status", "not_json", "not_dict"}

Response(fault, actions, continuations) ==
    [fault |-> fault, actions |-> actions, continuations |-> continuations]

\* the continuations that come with a response that carries events: none,
\* a well-formed one, and one whose timeoutMs makes the interval fail
EventContinuations ==
    { <<>>,
      << Entry(Block("c1", "num", 3000), NoBlock) >>,
      << Entry(Block("c1", "bad", 0), NoBlock) >> }

Responses ==
    {Response(f, <<>>, <<>>) : f \in Faults}
    \cup {Response("none", <<>>, c) : c \in ReaderContinuations}
    \cup {Response("none", a, c) :
            a \in SeqsUpTo(ReaderEvents, MaxActions), c \in EventContinuations}

\* html of the watch page: the request fails, no "continuation":"..." in
\* the page, or the first one found (possibly the empty string)
ConnectOutcomes == {"request_failed", "no_token", "", "c0"}

connect(handle, page) ==
    IF page \in {"request_failed", "no_token"}
      THEN [continuation |-> handle, ret |-> "ConnectionError"]
      ELSE [continuation |-> page, ret |-> "True"]

\* the ids of the events of a response that _parse_action turns into a
\* message, in feed order
RECURSIVE ParsedIds(_)
ParsedIds(actions) ==
    IF actions = <<>> THEN <<>>
    ELSE IF parse_action(Head(actions)) = NoMsg \/ Head(actions).shape = "badid"
      THEN ParsedIds(Tail(actions))
    ELSE <<parse_action(Head(actions)).id>> \o ParsedIds(Tail(actions))

\* where the processing of a response fails, "none" if it does not
FailureOf(resp) ==
    IF resp.fault # "none" THEN "exchange"
    ELSE IF \E i \in DOMAIN resp.actions :
              /\ resp.actions[i].shape = "badid"
              /\ parse_action(resp.actions[i]) # NoMsg THEN "actions"
    ELSE IF update_continuation("c", resp.continuations).raised THEN "continuation"
    ELSE IF get_polling_interval(resp.continuations).raised THEN "interval"
    ELSE "none"

MsgIdsOf(messages) == {messages[i].id : i \in DOMAIN messages}

\* the ids poll() inserts into the SeenSet, in the order of insertion
FreshIds(handle, ids, resp) ==
    IF handle \in {None, ""} \/ resp.fault # "none" THEN <<>>
    ELSE LET lp == PollLoop(ids, <<>>, resp.actions)
         IN  [i \in DOMAIN lp.messages |-> lp.messages[i].id]

\* whether poll() gets to the cap test with more than SEEN_CAP ids
Evicts(handle, ids, resp) ==
    /\ handle \notin {None, ""} /\ resp.fault = "none"
    /\ LET lp == PollLoop(ids, <<>>, resp.actions)
       IN  ~lp.raised /\ Cardinality(lp.seen_ids) > SEEN_CAP

\* the event has the shape and the fields of a plain text message
PlainTextMessage(e) ==
    /\ e.shape = "text"
    /\ e.id # NoField /\ e.channel_id # NoField /\ e.text # <<>>

\* the ids of the messages returned that come from no event of the response
\* that is a plain text message with this id and author
Unfit(messages, actions) ==
    { messages[i].id : i \in
        { k \in DOMAIN messages :
            ~\E j \in DOMAIN actions :
                /\ PlainTextMessage(actions[j])
                /\ actions[j].id = messages[k].id
                /\ actions[j].channel_id = messages[k].channel_id } }

InitReader ==
    /\ continuation = None
    /\ seen_ids = {}
    /\ session_open = TRUE
    /\ now = 0
    /\ RouterIdle /\ TrackerIdle /\ BotIdle /\ ManagerIdle
    /\ last = [op |-> "init"]
    /\ outs = <<>>
    /\ hist = [polls |-> 0]

Connect(page) ==
    LET r == connect(continuation, page)
    IN  /\ continuation' = r.continuation
        /\ last' = [op |-> "connect", ret |-> r.ret, handle |-> continuation]
        /\ UNCHANGED <<managerVars, seen_ids, session_open, now, routerVars, trackerVars, botVars,
                       outs, hist>>

Poll(resp) ==
    \E r \in poll(continuation, seen_ids, resp) :
        /\ continuation' = r.continuation
        /\ seen_ids' = r.seen_ids
        /\ last' = [op |-> "poll",
                    connected |-> continuation \notin {None, ""},
                    handle    |-> continuation,
                    fault     |-> resp.fault,
                    conts     |-> resp.continuations,
                    unfit     |-> Unfit(r.messages, resp.actions),
                    fresh     |-> FreshIds(continuation, seen_ids, resp),
                    evicted   |-> Evicts(continuation, seen_ids, resp),
                    before    |-> seen_ids,
                    parsed    |-> IF resp.fault = "none" THEN ParsedIds(resp.actions)
                                  ELSE <<>>,
                    failure   |-> FailureOf(resp),
                    returned  |-> MsgIdsOf(r.messages),
                    count     |-> Len(r.messages),
                    interval  |-> r.interval,
                    raised    |-> r.raised]
        /\ UNCHANGED <<managerVars, session_open, now, routerVars, trackerVars, botVars, outs, hist>>

NextReader ==
    \/ \E page \in ConnectOutcomes : Connect(page)
    \/ \E resp \in Responses : Poll(resp)

SpecReader == InitReader /\ [][NextReader]_vars

(***************************************************************************)
(* SpecManager: the dashboard's BotManager.  Its start(), stop() and        *)
(* status() are called by the request threads of the web server in any     *)
(* order, while the threads it created run _run_bot step by step.          *)
(***************************************************************************)
AliveThreads == {t \in Threads : threads[t].at \notin {"new", "dead"}}

\* the threads whose bot is inside its polling loop and was not told to stop
PollingThreads == {t \in Threads : threads[t].at = "loop" /\ threads[t].running}

NewThreads == {t \in Threads : threads[t].at = "new"}

InitManager ==
    /\ ManagerIdle
    /\ now = 0
    /\ RouterIdle /\ TrackerIdle /\ ReaderIdle
    /\ running = FALSE /\ initial_fetch = TRUE /\ pc = "idle"
    /\ batch = <<>> /\ interval = 0
    /\ last = [op |-> "init"]
    /\ outs = <<>>
    /\ hist = [created |-> 0]

\* BotManager.start(): refused while _running is set, else a new thread
ManagerStart ==
    /\ IF manager.running
         THEN /\ last' = [op |-> "start", success |-> FALSE,
                          alive |-> AliveThreads, thread |-> 0]
              /\ UNCHANGED <<manager, threads, hist>>
         ELSE /\ NewThreads # {}
              /\ LET t == CHOOSE u \in NewThreads : \A v \in NewThreads : u <= v
                 IN  /\ manager' = [manager EXCEPT !.error = None, !.thread = t]
                     /\ threads' = [threads EXCEPT ![t].at = "auth"]
                     /\ last' = [op |-> "start", success |-> TRUE,
                                 alive |-> AliveThreads, thread |-> t]
                     /\ hist' = [hist EXCEPT !.created = @ + 1]
    /\ UNCHANGED <<routerVars, trackerVars, readerVars, botVars, now, outs>>

\* _run_bot: get_authenticated_service(), then self._bot = StrykerBot(...)
RunCreate(t, ok) ==
    /\ threads[t].at = "auth"
    /\ IF ok
         THEN /\ manager' = [manager EXCEPT !.bot = t]
              /\ threads' = [threads EXCEPT ![t].at = "created"]
         ELSE /\ manager' = [manager EXCEPT !.error = "error"]
              /\ threads' = [threads EXCEPT ![t].at = "finally"]
    /\ last' = [op |-> "create", thread |-> t, ok |-> ok]
    /\ UNCHANGED <<routerVars, trackerVars, readerVars, botVars, now, outs, hist>>

\* _run_bot: self._running = True; self._start_time = time.time()
RunFlag(t) ==
    /\ threads[t].at = "created"
    /\ manager' = [manager EXCEPT !.running = TRUE, !.start_time = now]
    /\ threads' = [threads EXCEPT ![t].at = "starting"]
    /\ last' = [op |-> "flag", thread |-> t]
    /\ UNCHANGED <<routerVars, trackerVars, readerVars, botVars, now, outs, hist>>

StartOutcomes == {"loop", "returned", "raised"}

\* _run_bot: self._bot.start() up to the polling loop: it sets the bot's
\* running flag and enters the loop, returns early, or raises
RunBotStart(t, outcome) ==
    /\ threads[t].at = "starting"
    /\ threads' = [threads EXCEPT
                      ![t] = IF outcome = "loop" THEN [at |-> "loop", running |-> TRUE]
                             ELSE [@ EXCEPT !.at = "finally"]]
    /\ manager' = IF outcome = "raised" THEN [manager EXCEPT !.error = "error"]
                  ELSE manager
    /\ last' = [op |-> "botstart", thread |-> t, outcome |-> outcome]
    /\ UNCHANGED <<routerVars, trackerVars, readerVars, botVars, now, outs, hist>>

\* the while of _poll_loop finds the bot's running flag cleared
RunLoopExit(t) ==
    /\ threads[t].at = "loop"
    /\ ~threads[t].running
    /\ threads' = [threads EXCEPT ![t].at = "finally"]
    /\ last' = [op |-> "loopexit", thread |-> t]
    /\ UNCHANGED <<routerVars, trackerVars, readerVars, botVars, now, outs, hist,
                   manager>>

\* the finally of _run_bot
RunFinally(t) ==
    /\ threads[t].at = "finally"
    /\ manager' = [manager EXCEPT !.running = FALSE, !.bot = 0, !.start_time = -1]
    /\ threads' = [threads EXCEPT ![t].at = "dead"]
    /\ last' = [op |-> "finally", thread |-> t, bot |-> manager.bot,
                polling |-> PollingThreads]
    /\ UNCHANGED <<routerVars, trackerVars, readerVars, botVars, now, outs, hist>>

\* BotManager.stop(); the join gives up after 5 s, the thread may live on
ManagerStop ==
    /\ IF ~manager.running \/ manager.bot = 0
         THEN /\ last' = [op |-> "stop", success |-> FALSE, polling |-> PollingThreads]
              /\ UNCHANGED <<manager, threads>>
         ELSE /\ threads' = [threads EXCEPT ![manager.bot].running = FALSE]
              /\ manager' = [manager EXCEPT !.running = FALSE]
              /\ last' = [op |-> "stop", success |-> TRUE, polling |-> PollingThreads]
    /\ UNCHANGED <<routerVars, trackerVars, readerVars, botVars, now, outs, hist>>

\* BotManager.status()
ManagerStatus ==
    /\ last' = [op |-> "status", running |-> manager.running,
                uptime |-> manager.start_time # -1 /\ manager.running,
                bot |-> manager.bot, error |-> manager.error,
                polling |-> PollingThreads]
    /\ UNCHANGED <<routerVars, trackerVars, readerVars, botVars, managerVars, now,
                   outs, hist>>

NextManager ==
    \/ ManagerStart
    \/ \E t \in Threads, ok \in BOOLEAN : RunCreate(t, ok)
    \/ \E t \in Threads : RunFlag(t)
    \/ \E t \in Threads, outcome \in StartOutcomes : RunBotStart(t, outcome)
    \/ \E t \in Threads : RunLoopExit(t)
    \/ \E t \in Threads : RunFinally(t)
    \/ ManagerStop
    \/ ManagerStatus

SpecManager == InitManager /\ [][NextManager]_vars

(***************************************************************************)
(* SpecEvents: the chat reader fed with responses whose events lack        *)
(* fields: a text message without id, one without author id, one without   *)
(* text, an action that is no chat addition, and a text message whose id   *)
(* makes the membership test raise.                                        *)
(***************************************************************************)
FieldEvents ==
    { Event("text", "m1", "UCa", TxtHi, {}),
      Event("text", "m2", "UCa", TxtHi, {}),
      Event("text", NoField, "UCa", TxtHi, {}),
      Event("text", "m2", NoField, TxtHi, {}),
      Event("text", "m1", "UCa", <<>>, {}),
      Event("other", "m1", "UCa", TxtHi, {}),
      Event("badid", "m2", "UCa", TxtHi, {}) }

FieldResponses ==
    {Response("none", a, << Entry(Block("c1", "num", 3000), NoBlock) >>) :
        a \in SeqsUpTo(FieldEvents, MaxActions)}

NextEvents ==
    \/ \E page \in ConnectOutcomes : Connect(page)
    \/ \E resp \in FieldResponses : Poll(resp)

SpecEvents == InitReader /\ [][NextEvents]_vars

\* C2 as stated: for every poll(), a parsed message whose id is already in
\* the SeenSet is not in the returned batch, and a parsed message with a
\* fresh id is returned and its id is in the SeenSet afterwards.
C2_AsStated ==
    (last.op = "poll" /\ last.connected) =>
        \A i \in DOMAIN last.parsed :
            /\ (last.parsed[i] \in last.before => last.parsed[i] \notin last.returned)
            /\ (last.parsed[i] \notin last.before =>
                    last.parsed[i] \in last.returned /\ last.parsed[i] \in seen_ids)

\* C10: poll() never raises; when the exchange fails or the processing of
\* the response raises, it returns no message and the 5-second wait.
C10_PollDegrades ==
    last.op = "poll" =>
        /\ ~last.raised
        /\ (last.failure # "none" => last.count = 0 /\ last.interval = FALLBACK_WAIT)

C10_Witness ==
    /\ last.op = "poll" /\ last.connected
    /\ last.failure = "interval" /\ Len(last.parsed) > 0
    /\ last.count = 0 /\ last.interval = FALLBACK_WAIT /\ ~last.raised

\* C15: connect() returns True only with a non-empty handle stored, and
\* otherwise fails with ConnectionError and leaves the handle as it was.
C15_AsStated ==
    last.op = "connect" =>
        /\ (last.ret = "True" => continuation \notin {None, ""})
        /\ (last.ret # "True" =>
               last.ret = "ConnectionError" /\ continuation = last.handle)

\* the handles a response carries, whatever the block and the entry
HandlesOf(conts) ==
    ({conts[i].inv.c : i \in {j \in DOMAIN conts : conts[j].kind = "dict"}}
     \cup {conts[i].timed.c : i \in {j \in DOMAIN conts : conts[j].kind = "dict"}})
    \ {None, ""}

\* C16: poll() changes the stored handle only when its exchange succeeded
\* and the response carries a next handle, which is then the one stored; a
\* poll() whose exchange failed, one made without a handle, and one whose
\* response carries no next handle leave the stored handle as it was.
C16_HandleFrame ==
    last.op = "poll" =>
        /\ (continuation # last.handle =>
               /\ last.connected /\ last.fault = "none"
               /\ continuation \in HandlesOf(last.conts))
        /\ (last.fault # "none" \/ ~last.connected => continuation = last.handle)
        /\ (HandlesOf(last.conts) = {} => continuation = last.handle)

C16_Witness ==
    /\ last.op = "poll" /\ last.connected /\ last.fault = "none"
    /\ last.conts = <<>> /\ last.count > 0 /\ last.failure = "none"
    /\ continuation = last.handle

\* the blocks of a response in the order the reader scans them: entry by
\* entry, the live block of an entry before its timed block
RECURSIVE ScanOrder(_)
ScanOrder(conts) ==
    IF conts = <<>> THEN <<>>
    ELSE <<[b |-> Head(conts).inv, live |-> TRUE],
           [b |-> Head(conts).timed, live |-> FALSE]>> \o ScanOrder(Tail(conts))

HasHandle(x) == x.b.c \notin {None, ""}

HasValue(x) == x.b.tk = "num"

HasWait(x) == x.b.tk = "num" /\ x.b.t # 0

\* the first block of q that satisfies P, 0 when there is none
FirstWhere(q, P(_)) ==
    IF \E i \in DOMAIN q : P(q[i])
      THEN CHOOSE i \in DOMAIN q : P(q[i]) /\ \A j \in 1..(i - 1) : ~P(q[j])
      ELSE 0

IsLiveHandle(x) == x.live /\ HasHandle(x)

IsTimedHandle(x) == ~x.live /\ HasHandle(x)

PollSucceeded == last.op = "poll" /\ last.connected /\ last.failure = "none"

\* C17: when a response offers a live handle and a timed handle, poll()
\* stores the live one, wherever the two stand among the entries.
C17_AsStated ==
    PollSucceeded =>
        LET q == ScanOrder(last.conts)
            i == FirstWhere(q, IsLiveHandle)
        IN  (i # 0 /\ FirstWhere(q, IsTimedHandle) # 0) => continuation = q[i].b.c

\* the wait a block stands for
WaitOf(x) == IF HasWait(x) THEN Max(x.b.t, MIN_WAIT) ELSE FALLBACK_WAIT

\* C18 as stated: the wait a successful poll() returns is the one of the
\* block that supplied the handle it stored.
C18_AsStated ==
    PollSucceeded =>
        LET q == ScanOrder(last.conts)
            h == FirstWhere(q, HasHandle)
        IN  h # 0 => last.interval = WaitOf(q[h])

\* C18 amended: the wait a successful poll() returns is the one of the
\* first block, in scan order, that carries a non-zero timeoutMs, whether or
\* not that block supplied the handle (5 s when no block carries one); it
\* is the wait of the block that supplied the handle when that block
\* carries a timeoutMs and no block scanned before it does.
C18_FirstWait ==
    PollSucceeded =>
        LET q == ScanOrder(last.conts)
            h == FirstWhere(q, HasHandle)
            w == FirstWhere(q, HasWait)
        IN  /\ last.interval = IF w = 0 THEN FALLBACK_WAIT ELSE WaitOf(q[w])
            /\ (h # 0 /\ w = h => last.interval = WaitOf(q[h]))

C18_Witness ==
    /\ PollSucceeded
    /\ LET q == ScanOrder(last.conts)
       IN  /\ FirstWhere(q, HasHandle) = 1 /\ FirstWhere(q, HasWait) = 2
           /\ last.interval = Max(q[2].b.t, MIN_WAIT)
           /\ continuation = q[1].b.c

\* C19: the wait poll() returns is the server's timeoutMs when that is at
\* least 1 s, 1 s when it is smaller, 5 s when the server gives none, and
\* never below 1 s (waits in milliseconds).
C19_AsStated ==
    PollSucceeded =>
        LET q == ScanOrder(last.conts)
            v == FirstWhere(q, HasValue)
        IN  /\ last.interval >= MIN_WAIT
            /\ (v = 0 => last.interval = FALLBACK_WAIT)
            /\ (v # 0 => last.interval =
                           IF q[v].b.t >= MIN_WAIT THEN q[v].b.t ELSE MIN_WAIT)

\* the n ids inserted last
LastN(q, n) == {q[i] : i \in {j \in DOMAIN q : j > Len(q) - n}}

\* C20: when the insertions of a poll() take the SeenSet over the cap, the
\* ids kept are exactly the SEEN_KEEP inserted last, so the set is not
\* emptied and the newest ids stay seen.
C20_AsStated ==
    (last.op = "poll" /\ last.evicted /\ Len(last.fresh) >= SEEN_KEEP) =>
        /\ Cardinality(seen_ids) = SEEN_KEEP
        /\ seen_ids = LastN(last.fresh, SEEN_KEEP)

(***************************************************************************)
(* features/polls.py                                                       *)
(***************************************************************************)
Quote == "\""

\* index of the first double quote of s at or after i, 0 if there is none
RECURSIVE NextQuote(_, _)
NextQuote(s, i) ==
    IF i > Len(s) THEN 0
    ELSE IF s[i] = Quote THEN i
    ELSE NextQuote(s, i + 1)

\* re.findall(r'"([^"]+)"', s) scanning from index i
RECURSIVE FindAllQuoted(_, _)
FindAllQuoted(s, i) ==
    IF i > Len(s) THEN <<>>
    ELSE IF s[i] # Quote THEN FindAllQuoted(s, i + 1)
    ELSE LET k == NextQuote(s, i + 1)
         IN  IF k = 0 THEN <<>>
             ELSE IF k = i + 1 THEN FindAllQuoted(s, i + 1)
             ELSE <<SubSeq(s, i + 1, k - 1)>> \o FindAllQuoted(s, k + 1)

NoPoll == [none |-> TRUE]          \* the (None, None) of parse_poll_command

parse_poll_command(text) ==
    LET parts == FindAllQuoted(text, 1)
    IN  IF Len(parts) < 3 THEN NoPoll
        ELSE LET options == Tail(parts)
             IN  [question |-> Head(parts),
                  options  |-> IF Len(options) > 4 THEN SubSeq(options, 1, 4)
                               ELSE options]

(***************************************************************************)
(* SpecParser: parse_poll_command on its own.  A chat text is put together *)
(* from up to MaxTokens pieces (a quoted word, an empty pair of quotes, a  *)
(* blank, a single quote) and parsed once.                                 *)
(***************************************************************************)
PollTokens ==
    { <<Quote, "A", Quote>>, <<Quote, "B", Quote>>, <<Quote, Quote>>, <<" ">>,
      <<Quote>> }

RECURSIVE Flatten(_)
Flatten(pieces) ==
    IF pieces = <<>> THEN <<>> ELSE Head(pieces) \o Flatten(Tail(pieces))

PollInputs == {Flatten(pieces) : pieces \in SeqsUpTo(PollTokens, MaxTokens)}

InitParser ==
    /\ RouterIdle /\ TrackerIdle /\ ReaderIdle /\ BotIdle /\ ManagerIdle
    /\ now = 0
    /\ outs = <<>>
    /\ hist = [none |-> TRUE]
    /\ \E text \in PollInputs : last = [op |-> "text", text |-> text]

ParsePollCommand ==
    /\ last.op = "text"
    /\ last' = [op |-> "parse", text |-> last.text,
                ret |-> parse_poll_command(last.text)]
    /\ UNCHANGED <<managerVars, routerVars, trackerVars, readerVars, botVars, now, outs, hist>>

NextParser == ParsePollCommand

SpecParser == InitParser /\ [][NextParser]_vars

\* the double-quoted substrings of s from index i on, in order: what stands
\* between the first and the second quote, the third and the fourth, ...
RECURSIVE QuotedSubstrings(_, _)
QuotedSubstrings(s, i) ==
    LET a == NextQuote(s, i)
        b == IF a = 0 THEN 0 ELSE NextQuote(s, a + 1)
    IN  IF a = 0 \/ b = 0 THEN <<>>
        ELSE <<SubSeq(s, a + 1, b - 1)>> \o QuotedSubstrings(s, b + 1)

ReferenceParse(text) ==
    LET q == QuotedSubstrings(text, 1)
    IN  IF Len(q) < 3 THEN NoPoll
        ELSE [question |-> q[1],
              options  |-> SubSeq(q, 2, IF Len(q) > 5 THEN 5 ELSE Len(q))]

\* C30: parse(text) equals the reference parse: with q the double-quoted
\* substrings of the text in order, the result is (None, None) when q has
\* fewer than 3 elements, and otherwise the question is q's first element
\* and the options are the following elements in order, cut to the first 4;
\* a result other than (None, None) has 2 to 4 options.
C30_AsStated ==
    last.op = "parse" =>
        /\ last.ret = ReferenceParse(last.text)
        /\ (last.ret # NoPoll => Len(last.ret.options) \in 2..4)


(***************************************************************************)
(* bot.py: _process_message.  The state it works on is the record          *)
(*   [seen, store, bot, owner, lookup, cooldowns, file]                    *)
(* and fx gives what the environment does during the call: the outcome of  *)
(* a save of the viewer set (io) and of the first and the second publish   *)
(* (send1, send2): "ok", "rejected" (HttpError, logged, False returned) or *)
(* "raised" (any other exception, which leaves _process_message).          *)
(* acc.outs lists the publishes attempted (the calls of send_message and   *)
(* create_poll, whatever their outcome), acc.tried the steps evaluated,    *)
(* acc.done is set where the code returns.                                 *)
(***************************************************************************)
SendOutcomes == {"ok", "rejected", "raised"}

PollWord   == <<"p", "o", "l", "l">>
ReloadWord == <<"r", "e", "l", "o", "a", "d">>

Publish(acc, kind, res) ==
    [acc EXCEPT !.outs = Append(@, kind),
                !.raised = (res = "raised"),
                !.done = @ \/ (res = "raised")]

\* the outcome of the next publish: send1 for the first, send2 for the rest
NextSend(acc, fx) == IF acc.outs = <<>> THEN fx.send1 ELSE fx.send2

\* WelcomeStep that records the author only when the welcome was published
WelcomeStep_RecordAfter(acc, msg, fx) ==
    LET n  == is_new(acc.seen, acc.store, acc.bot, acc.owner, msg.channel_id, fx.io)
        a0 == [acc EXCEPT !.tried = Append(@, "welcome")]
        a1 == [a0 EXCEPT !.seen = n.seen, !.store = n.store]
    IN  IF ~n.ret THEN a1
        ELSE IF NextSend(a0, fx) = "ok" THEN Publish(a1, "welcome", "ok")
        ELSE Publish(a0, "welcome", NextSend(a0, fx))

\* Step 1: welcome first-time chatters
WelcomeStep(acc, msg, fx) ==
    LET n  == is_new(acc.seen, acc.store, acc.bot, acc.owner, msg.channel_id, fx.io)
        a1 == [acc EXCEPT !.seen = n.seen, !.store = n.store,
                          !.tried = Append(@, "welcome")]
    IN  IF n.ret THEN Publish(a1, "welcome", NextSend(a1, fx)) ELSE a1

\* CommandStep without the return after the reply
CommandStep_NoReturn(acc, msg, fx, t) ==
    IF acc.done THEN acc
    ELSE LET m  == match(acc.lookup, acc.cooldowns, msg.message, t)
             a1 == [acc EXCEPT !.cooldowns = m.cooldowns, !.tried = Append(@, "command")]
         IN  IF m.ret # None /\ m.ret # ""
               THEN Publish(a1, "command", NextSend(a1, fx))
               ELSE a1

\* Step 2: slash commands with cooldown
CommandStep(acc, msg, fx, t) ==
    IF acc.done THEN acc
    ELSE LET m  == match(acc.lookup, acc.cooldowns, msg.message, t)
             a1 == [acc EXCEPT !.cooldowns = m.cooldowns, !.tried = Append(@, "command")]
         IN  IF m.ret # None /\ m.ret # ""
               THEN [Publish(a1, "command", NextSend(a1, fx)) EXCEPT !.done = TRUE]
               ELSE a1

\* PollStep without the role test
PollStep_AnyAuthor(acc, msg, fx) ==
    IF acc.done THEN acc
    ELSE LET text_lower == Lower(Strip(msg.message))
             a1 == [acc EXCEPT !.tried = Append(@, "poll")]
         IN  IF StartsWith(text_lower, BOT_PREFIX \o PollWord)
               THEN [(IF parse_poll_command(msg.message) # NoPoll
                        THEN Publish(a1, "poll", NextSend(a1, fx))
                        ELSE Publish(a1, "usage", NextSend(a1, fx)))
                     EXCEPT !.done = TRUE]
               ELSE a1

\* Step 3: poll command, owner or moderator only
PollStep(acc, msg, fx) ==
    IF acc.done THEN acc
    ELSE LET text_lower == Lower(Strip(msg.message))
             a1 == [acc EXCEPT !.tried = Append(@, "poll")]
         IN  IF StartsWith(text_lower, BOT_PREFIX \o PollWord)
               THEN [(IF msg.is_owner \/ msg.is_moderator
                        THEN IF parse_poll_command(msg.message) # NoPoll
                               THEN Publish(a1, "poll", NextSend(a1, fx))
                               ELSE Publish(a1, "usage", NextSend(a1, fx))
                        ELSE Publish(a1, "denied", NextSend(a1, fx)))
                     EXCEPT !.done = TRUE]
               ELSE a1

\* ReloadStep that also accepts a moderator
ReloadStep_ModToo(acc, msg, fx) ==
    IF acc.done THEN acc
    ELSE LET text_lower == Lower(Strip(msg.message))
             a1 == [acc EXCEPT !.tried = Append(@, "reload")]
         IN  IF text_lower = BOT_PREFIX \o ReloadWord
                  /\ (msg.is_owner \/ msg.is_moderator)
               THEN [Publish([a1 EXCEPT !.lookup = load_commands(acc.file)],
                             "reloaded", NextSend(a1, fx))
                     EXCEPT !.done = TRUE]
               ELSE a1

\* Step 4: reload command, owner only
ReloadStep(acc, msg, fx) ==
    IF acc.done THEN acc
    ELSE LET text_lower == Lower(Strip(msg.message))
             a1 == [acc EXCEPT !.tried = Append(@, "reload")]
         IN  IF text_lower = BOT_PREFIX \o ReloadWord /\ msg.is_owner
               THEN [Publish([a1 EXCEPT !.lookup = load_commands(acc.file)],
                             "reloaded", NextSend(a1, fx))
                     EXCEPT !.done = TRUE]
               ELSE a1

process_message(st, msg, fx, t) ==
    LET acc0 == [seen |-> st.seen, store |-> st.store, bot |-> st.bot,
                 owner |-> st.owner, lookup |-> st.lookup,
                 cooldowns |-> st.cooldowns, file |-> st.file,
                 outs |-> <<>>, tried |-> <<>>, done |-> FALSE, raised |-> FALSE]
        \* each step is evaluated once, on the value the step before it left
        after1 == {WelcomeStep(acc0, msg, fx)}
        after2 == {CommandStep(a, msg, fx, t) : a \in after1}
        after3 == {PollStep(a, msg, fx) : a \in after2}
        after4 == {ReloadStep(a, msg, fx) : a \in after3}
    IN  CHOOSE a \in after4 : TRUE

(***************************************************************************)
(* SpecPipeline: _process_message on its own.  Any message of              *)
(* PipelineMessages is processed at any time, commands.json is rewritten   *)
(* by the dashboard, and time passes.  The observation follows one         *)
(* trigger, hist.word: when it last fired (match() returned its reply) and *)
(* for which author.                                                       *)
(***************************************************************************)
Personas ==
    { [channel_id |-> "UCa",   badges |-> {}],
      [channel_id |-> "UCa",   badges |-> {"MODERATOR"}],
      [channel_id |-> OwnerId, badges |-> {"OWNER"}] }

PipelineTexts == {TxtHi, TxtHelp, TxtReloadUp, TxtPollOk, TxtPolls}

PipelineMessages ==
    {Msg("m1", p.channel_id, text, p.badges) : p \in Personas, text \in PipelineTexts}

PipelineFiles == {FileA, FileB}
PipelineSaves == {"ok"}
PipelineSends ==
    { [send1 |-> "ok", send2 |-> "ok"], [send1 |-> "rejected", send2 |-> "rejected"],
      [send1 |-> "raised", send2 |-> "ok"], [send1 |-> "ok", send2 |-> "raised"] }

TrackedWord == TxtHelp

NeverFired == [set |-> FALSE, at |-> 0, by |-> ""]

BotState ==
    [seen |-> seen, store |-> store, bot |-> bot_channel_id, owner |-> owner_channel_id,
     lookup |-> lookup, cooldowns |-> cooldowns, file |-> commands_file]

\* the tracker as start() leaves it: constructed on the store, the bot's
\* channel id set, the owner's set when it was detected
StartedTracker(file, withBot, withOwner, io) ==
    LET t0 == [seen |-> load_set(file), store |-> file]
        t1 == IF withBot THEN set_channel_id(t0.seen, t0.store, BotId, io) ELSE t0
    IN  IF withOwner THEN set_channel_id(t1.seen, t1.store, OwnerId, io) ELSE t1

InitPipeline ==
    /\ commands_file \in PipelineFiles
    /\ lookup = load_commands(commands_file)
    /\ cooldowns = EmptyDict
    /\ loading = NotLoading
    /\ now = 0
    /\ \E withOwner \in BOOLEAN :
          LET t == StartedTracker(FileAbsent, TRUE, withOwner, "ok")
          IN  /\ seen = t.seen
              /\ store = t.store
              /\ bot_channel_id = BotId
              /\ owner_channel_id = IF withOwner THEN OwnerId ELSE None
    /\ ReaderIdle /\ BotIdle /\ ManagerIdle
    /\ last = [op |-> "init"]
    /\ outs = <<>>
    /\ hist = [word |-> TrackedWord, fired |-> NeverFired]

ProcessMessage(msg, fx) ==
    \E r \in {process_message(BotState, msg, fx, now)},
       m \in {match(lookup, cooldowns, msg.message, now)} :
        LET word == FirstWord(Lower(Strip(msg.message)))
        IN  /\ seen' = r.seen
            /\ store' = r.store
            /\ cooldowns' = r.cooldowns
            /\ lookup' = r.lookup
            /\ outs' = r.outs
            /\ last' = [op |-> "process", msg |-> msg, at |-> now, word |-> word,
                        reply |-> IF "command" \in Range(r.tried) THEN m.ret ELSE None,
                        tableChanged |-> r.lookup # lookup, before |-> hist.fired,
                        tried |-> r.tried, raised |-> r.raised]
            /\ hist' = IF word = hist.word /\ "command" \in Range(r.tried)
                          /\ m.ret # None
                         THEN [hist EXCEPT !.fired = [set |-> TRUE, at |-> now,
                                                      by |-> msg.channel_id]]
                         ELSE hist
            /\ UNCHANGED <<managerVars, commands_file, loading, now, bot_channel_id,
                           owner_channel_id, readerVars, botVars>>

NextPipeline ==
    \/ \E msg \in PipelineMessages, io \in PipelineSaves, sends \in PipelineSends :
            ProcessMessage(msg, [io |-> io, send1 |-> sends.send1,
                                 send2 |-> sends.send2])
    \/ \E f \in PipelineFiles : WriteCommandsFile(f)
    \/ Tick

SpecPipeline == InitPipeline /\ [][NextPipeline]_vars

Processed == last.op = "process"

TextLower == Lower(Strip(last.msg.message))

IsPollCommand == StartsWith(TextLower, BOT_PREFIX \o PollWord)

IsReloadDirective == TextLower = BOT_PREFIX \o ReloadWord

Published(kind) == kind \in Range(outs)

\* the publishes of steps 2 to 4 among those made for the last message
LaterPublishes == SelectSeq(outs, LAMBDA k : k # "welcome")

\* C6: while the tracked trigger is within its cooldown after firing for one
\* author, a message of another author that uses this trigger gets no
\* command reply.
C6_GlobalCooldown ==
    (/\ Processed /\ last.word = hist.word
     /\ last.before.set /\ last.before.by # last.msg.channel_id
     /\ last.at - last.before.at < COOLDOWN_SECONDS)
        => ~Published("command") /\ last.reply = None

C6_Witness ==
    /\ Processed /\ last.word = hist.word
    /\ last.before.set /\ last.before.by # last.msg.channel_id
    /\ last.at - last.before.at < COOLDOWN_SECONDS
    /\ "command" \in Range(last.tried) /\ ~last.raised
    /\ ~Published("command")

\* C7: the steps of _process_message are tried in the order welcome,
\* command, poll, reload; at most one publish is made by the steps command,
\* poll and reload together, no step is tried after the one that published,
\* and a welcome is published before any other publish for the message.
C7_StepOrder ==
    Processed =>
        /\ last.tried = SubSeq(<<"welcome", "command", "poll", "reload">>,
                               1, Len(last.tried))
        /\ Len(LaterPublishes) <= 1
        /\ (Published("welcome") => outs[1] = "welcome")
        /\ (Published("command") => last.tried[Len(last.tried)] = "command")
        /\ (last.reply \notin {None, ""} => Published("command"))
        /\ (Published("poll") \/ Published("usage") \/ Published("denied")
              => last.tried[Len(last.tried)] = "poll")

C7_Witness ==
    /\ Processed /\ outs = <<"welcome", "command">>
    /\ last.tried = <<"welcome", "command">>
    /\ IsPollCommand

ReachedPollStep == "poll" \in Range(last.tried)

C9_AsStated ==
    Processed =>
        /\ (Published("reloaded") \/ last.tableChanged
              => IsReloadDirective /\ last.msg.is_owner)
        /\ (IsReloadDirective /\ ~last.msg.is_owner
              => ~last.tableChanged /\ outs = <<>>)

\* C9 amended: reload() is called and the confirmation published only for
\* the reload directive of the owner; the directive from anyone else leaves
\* the CommandTable unchanged and publishes no confirmation (the welcome of
\* step 1 or a command reply of step 2 can still be published for it).
C9_ReloadGate ==
    Processed =>
        /\ (Published("reloaded") \/ last.tableChanged
              => IsReloadDirective /\ last.msg.is_owner)
        /\ (IsReloadDirective /\ ~last.msg.is_owner
              => /\ ~last.tableChanged
                 /\ ~Published("reloaded")
                 /\ \A i \in DOMAIN outs : outs[i] \in {"welcome", "command"})

C9_Witness ==
    /\ Processed /\ IsReloadDirective
    /\ last.msg.is_moderator /\ ~last.msg.is_owner
    /\ outs = <<"welcome">> /\ ~last.tableChanged /\ ~last.raised
    /\ lookup # load_commands(commands_file)

(***************************************************************************)
(* SpecBot: one StrykerBot from start() to the end of _poll_loop().         *)
(* pc is the position of the bot's thread: "idle" before start(),          *)
(* "starting" in steps 1 to 4 of start(), "connecting" once the reader     *)
(* exists and connect() is under way, "top" at the loop test, "poll"       *)
(* before poll(), "exchange" inside poll(), "dispatch" inside the for loop *)
(* over the batch, "sleep" and "backoff" in the two sleeps, "exited" after *)
(* the loop or after a failed start().  stop() is called from the thread   *)
(* of the dashboard at any time after start() was called; Ctrl+C raises    *)
(* KeyboardInterrupt in the bot's thread.  hist counts the calls of poll() *)
(* (polls), those that returned a response (okPolls), the cycles routed to *)
(* seed_from_history (seeds), tells whether the batch in hand comes from   *)
(* the first poll that returned a response (fromFirst), whether start()    *)
(* failed (startFailed), whether running was ever set (ran), whether       *)
(* stop() was called (stopReq) and where the bot's thread was then         *)
(* (stopAt, with inFlight when a request of poll() was on the wire), and   *)
(* whether Ctrl+C was pressed (interrupted).                               *)
(***************************************************************************)
BACKOFF_WAIT == 10000

BotEvents ==
    { Event("text", "m1", "UCa", TxtHi, {}),
      Event("text", "m2", "UCa", TxtHelp, {}),
      Event("text", "m3", OwnerId, TxtHi, {"OWNER"}),
      Event("text", "m4", "UCa", TxtPollOk, {"MODERATOR"}) }

GoodContinuations == << Entry(Block("c1", "num", 3000), NoBlock) >>

BotResponses ==
    { Response("network", <<>>, <<>>),
      Response("none", <<>>, << BadEntry >>) }
    \cup {Response("none", a, GoodContinuations) : a \in SeqsUpTo(BotEvents, MaxActions)}

BotSends ==
    { [send1 |-> "ok", send2 |-> "ok"], [send1 |-> "raised", send2 |-> "ok"],
      [send1 |-> "rejected", send2 |-> "rejected"] }

\* outcomes of a save of the viewer set while the bot runs
BotSaves == {"ok", "open_failed"}

AllSent(fx) == [fx EXCEPT !.send1 = "ok", !.send2 = "ok"]

\* the outcomes of the publishes a call of _process_message attempted
SendResults(attempted, fx) ==
    [i \in DOMAIN attempted |-> IF i = 1 THEN fx.send1 ELSE fx.send2]

(***************************************************************************)
(* Observation of a bot: per StrykerBot, how many polls were made and      *)
(* succeeded, how startup and shutdown went; over all bots started on the  *)
(* same data directory, which author ids a welcome was published for       *)
(* (welcomedEver), which by the bot now running (welcomed), and which ids  *)
(* the store held when its tracker was constructed (loaded).               *)
(***************************************************************************)
NewBotHist ==
    [polls |-> 0, okPolls |-> 0, seeds |-> 0, fromFirst |-> FALSE,
     startFailed |-> FALSE, ran |-> FALSE, stopReq |-> FALSE,
     stopAt |-> "none", inFlight |-> FALSE, interrupted |-> FALSE,
     lives |-> 1, welcomed |-> {}, welcomedEver |-> {}, loaded |-> {}]

\* steps 1 and 2 of start(): the stream and its chat id are found, no active
\* broadcast is found (start() returns), or the video has no active chat
\* (get_live_chat_id raises)
ResolveOutcomes == {"ok", "no_stream", "no_chat"}

InitBot ==
    /\ commands_file = FileA
    /\ lookup = load_commands(commands_file)
    /\ cooldowns = EmptyDict
    /\ loading = NotLoading
    /\ now = 0
    /\ TrackerIdle /\ ReaderIdle /\ BotIdle /\ ManagerIdle
    /\ last = [op |-> "init"]
    /\ outs = <<>>
    /\ hist = NewBotHist

\* start(), steps 1 to 4: the stream and the chat id are resolved, the
\* tracker is created on its store and told the bot's and the owner's id
StartResolve(outcome) ==
    /\ pc = "idle"
    /\ IF outcome = "ok"
         THEN LET t == StartedTracker(store, TRUE, TRUE, "ok")
              IN  /\ seen' = t.seen
                  /\ store' = t.store
                  /\ bot_channel_id' = BotId
                  /\ owner_channel_id' = OwnerId
                  /\ pc' = "starting"
                  /\ hist' = [hist EXCEPT !.loaded = load_set(store)]
         ELSE /\ pc' = "exited"
              /\ hist' = [hist EXCEPT !.startFailed = TRUE]
              /\ UNCHANGED trackerVars
    /\ last' = [op |-> "resolve", ret |-> outcome]
    /\ UNCHANGED <<managerVars, routerVars, readerVars, now, running, initial_fetch, batch,
                   interval, outs>>

\* start(), step 5: self._chat_reader = LiveChatReader(video_id)
StartReader ==
    /\ pc = "starting"
    /\ pc' = "connecting"
    /\ continuation' = None
    /\ seen_ids' = {}
    /\ session_open' = TRUE
    /\ last' = [op |-> "reader"]
    /\ UNCHANGED <<managerVars, routerVars, trackerVars, now, running, initial_fetch, batch,
                   interval, outs, hist>>

\* StartConnect that raises the flag before it knows the outcome of connect()
StartConnect_RunFirst(page) ==
    /\ pc = "connecting"
    /\ LET c == connect(continuation, page)
       IN  /\ continuation' = c.continuation
           /\ running' = TRUE
           /\ pc' = IF c.ret = "True" THEN "top" ELSE "exited"
           /\ last' = [op |-> "start", ret |-> c.ret]
           /\ hist' = [hist EXCEPT !.ran = TRUE,
                                   !.startFailed = @ \/ c.ret # "True"]
    /\ UNCHANGED <<managerVars, routerVars, trackerVars, now, seen_ids, session_open,
                   initial_fetch, batch, interval, outs>>

\* start(), steps 5 and 6: connect(); on ConnectionError start() returns,
\* otherwise running is set and the loop is entered
StartConnect(page) ==
    /\ pc = "connecting"
    /\ LET c == connect(continuation, page)
       IN  /\ continuation' = c.continuation
           /\ running' = IF c.ret = "True" THEN TRUE ELSE running
           /\ pc' = IF c.ret = "True" THEN "top" ELSE "exited"
           /\ last' = [op |-> "start", ret |-> c.ret]
           /\ hist' = [hist EXCEPT !.ran = @ \/ c.ret = "True",
                                   !.startFailed = @ \/ c.ret # "True"]
    /\ UNCHANGED <<managerVars, routerVars, trackerVars, now, seen_ids, session_open,
                   initial_fetch, batch, interval, outs>>

\* while self.running:
LoopTop ==
    /\ pc = "top"
    /\ pc' = IF running THEN "poll" ELSE "exited"
    /\ last' = [op |-> "top", from |-> last.op, ran |-> running]
    /\ outs' = <<>>
    /\ UNCHANGED <<managerVars, routerVars, trackerVars, readerVars, now, running, initial_fetch,
                   batch, interval, hist>>

\* poll() is entered; with a handle its request goes on the wire
BeginPoll ==
    /\ pc = "poll"
    /\ pc' = "exchange"
    /\ hist' = [hist EXCEPT !.polls = Inc2(@)]
    /\ last' = [op |-> "begin"]
    /\ UNCHANGED <<managerVars, routerVars, trackerVars, readerVars, now, running, initial_fetch,
                   batch, interval, outs>>

\* poll() returns, then the branch on _initial_fetch: the seeding cycle
\* hands the batch to seed_from_history and clears the flag, every other
\* cycle enters the for loop over the batch
LoopPoll(resp) ==
    /\ pc = "exchange"
    /\ \E r \in poll(continuation, seen_ids, resp) :
          LET ok == ~r.degraded
              sd == seed_from_history(seen, store, r.messages, "ok")
          IN  /\ continuation' = r.continuation
              /\ seen_ids' = r.seen_ids
              /\ interval' = r.interval
              /\ hist' = [hist EXCEPT
                            !.okPolls   = IF ok THEN Inc2(@) ELSE @,
                            !.seeds     = IF initial_fetch THEN Inc2(@) ELSE @,
                            !.fromFirst = ok /\ hist.okPolls = 0]
              /\ IF initial_fetch
                   THEN /\ seen' = sd.seen
                        /\ store' = sd.store
                        /\ initial_fetch' = FALSE
                        /\ batch' = <<>>
                        /\ pc' = "sleep"
                        /\ last' = [op |-> "seed", ok |-> ok,
                                    authors |-> AuthorsOf(r.messages)]
                   ELSE /\ batch' = r.messages
                        /\ pc' = IF r.messages = <<>> THEN "sleep" ELSE "dispatch"
                        /\ last' = [op |-> "poll", ok |-> ok]
                        /\ UNCHANGED <<seen, store, initial_fetch>>
    /\ outs' = <<>>
    /\ UNCHANGED <<managerVars, routerVars, bot_channel_id, owner_channel_id, session_open, now,
                   running>>

\* one turn of the for loop: _process_message on the next message of the
\* batch; an exception leaves the loop for the handler of _poll_loop
Dispatch(fx) ==
    /\ pc = "dispatch"
    /\ \E r \in {process_message(BotState, Head(batch), fx, now)},
          g \in {process_message(BotState, Head(batch), AllSent(fx), now)} :
          LET author  == Head(batch).channel_id
              greeted == "welcome" \in Range(r.outs)
          IN  /\ seen' = r.seen
              /\ store' = r.store
              /\ cooldowns' = r.cooldowns
              /\ lookup' = r.lookup
              /\ outs' = r.outs
              /\ last' = [op |-> "process", msg |-> Head(batch), raised |-> r.raised,
                          left |-> Len(batch) - 1,
                          results |-> SendResults(r.outs, fx),
                          asSent |-> /\ r.seen = g.seen /\ r.store = g.store
                                     /\ r.cooldowns = g.cooldowns
                                     /\ r.lookup = g.lookup
                                     /\ r.raised = g.raised,
                          greeted |-> greeted,
                          before |-> author \in hist.welcomedEver,
                          again |-> greeted /\ author \in hist.welcomed,
                          againEver |-> greeted /\ author \in hist.welcomedEver,
                          stored |-> author \in hist.loaded,
                          recorded |-> author \in r.seen]
              /\ hist' = IF greeted
                           THEN [hist EXCEPT !.welcomed = @ \cup {author},
                                             !.welcomedEver = @ \cup {author}]
                           ELSE hist
              /\ batch' = IF r.raised THEN <<>> ELSE Tail(batch)
              /\ pc' = IF r.raised THEN "backoff"
                       ELSE IF Tail(batch) = <<>> THEN "sleep" ELSE "dispatch"
    /\ UNCHANGED <<managerVars, commands_file, loading, bot_channel_id, owner_channel_id,
                   readerVars, now, running, initial_fetch, interval>>

\* the process is started again after start() has returned: a new
\* StrykerBot with its router, on the same data directory
Restart ==
    /\ pc = "exited"
    /\ hist.lives < MaxLives
    /\ lookup' = load_commands(commands_file)
    /\ cooldowns' = EmptyDict
    /\ seen' = {}
    /\ bot_channel_id' = None
    /\ owner_channel_id' = None
    /\ continuation' = None
    /\ seen_ids' = {}
    /\ session_open' = TRUE
    /\ running' = FALSE
    /\ initial_fetch' = TRUE
    /\ pc' = "idle"
    /\ batch' = <<>>
    /\ interval' = 0
    /\ last' = [op |-> "restart"]
    /\ outs' = <<>>
    /\ hist' = [NewBotHist EXCEPT !.lives = hist.lives + 1,
                                  !.welcomedEver = hist.welcomedEver]
    /\ UNCHANGED <<managerVars, commands_file, loading, store, now>>

\* time.sleep(interval)
Sleep ==
    /\ pc = "sleep"
    /\ pc' = "top"
    /\ now' = IF now < MaxTime THEN now + 1 ELSE now
    /\ last' = [op |-> "sleep", wait |-> interval]
    /\ outs' = <<>>
    /\ UNCHANGED <<managerVars, routerVars, trackerVars, readerVars, running, initial_fetch, batch,
                   interval, hist>>

\* a handler that gives up: the loop is left after the wait
Backoff_Abort ==
    /\ pc = "backoff"
    /\ pc' = "exited"
    /\ now' = IF now < MaxTime THEN now + 1 ELSE now
    /\ last' = [op |-> "backoff", wait |-> BACKOFF_WAIT]
    /\ outs' = <<>>
    /\ UNCHANGED <<managerVars, routerVars, trackerVars, readerVars, running, initial_fetch, batch,
                   interval, hist>>

\* except Exception: time.sleep(10)
Backoff ==
    /\ pc = "backoff"
    /\ pc' = "top"
    /\ now' = IF now < MaxTime THEN now + 1 ELSE now
    /\ last' = [op |-> "backoff", wait |-> BACKOFF_WAIT]
    /\ outs' = <<>>
    /\ UNCHANGED <<managerVars, routerVars, trackerVars, readerVars, running, initial_fetch, batch,
                   interval, hist>>

\* stop(), from the thread of the dashboard: the flag is cleared and the
\* reader, when there is one, is closed
Stop ==
    /\ pc \notin {"idle", "exited"}
    /\ ~hist.stopReq
    /\ running' = FALSE
    /\ session_open' = IF pc = "starting" THEN session_open ELSE FALSE
    /\ hist' = [hist EXCEPT !.stopReq = TRUE, !.stopAt = pc,
                            !.inFlight = pc = "exchange"
                                         /\ continuation \notin {None, ""}]
    /\ UNCHANGED <<managerVars, routerVars, trackerVars, continuation, seen_ids, now, initial_fetch,
                   pc, batch, interval, last, outs>>

\* Ctrl+C: inside the try block KeyboardInterrupt reaches the handler that
\* calls stop() and breaks; raised in the sleep of the other handler it
\* leaves _poll_loop as it is
Interrupt ==
    /\ pc \in {"poll", "exchange", "dispatch", "sleep", "backoff"}
    /\ pc' = "exited"
    /\ batch' = <<>>
    /\ running' = IF pc = "backoff" THEN running ELSE FALSE
    /\ session_open' = IF pc = "backoff" THEN session_open ELSE FALSE
    /\ hist' = [hist EXCEPT !.interrupted = TRUE]
    /\ last' = [op |-> "interrupt", at |-> pc, left |-> Len(batch)]
    /\ UNCHANGED <<managerVars, routerVars, trackerVars, continuation, seen_ids, now, initial_fetch,
                   interval, outs>>

NextBot ==
    \/ \E outcome \in ResolveOutcomes : StartResolve(outcome)
    \/ StartReader
    \/ \E page \in ConnectOutcomes : StartConnect(page)
    \/ LoopTop
    \/ BeginPoll
    \/ \E resp \in BotResponses : LoopPoll(resp)
    \/ \E sends \in BotSends, io \in BotSaves :
          Dispatch([io |-> io, send1 |-> sends.send1, send2 |-> sends.send2])
    \/ Restart
    \/ Sleep
    \/ Backoff
    \/ Stop
    \/ Interrupt

SpecBot == InitBot /\ [][NextBot]_vars

\* C1: the batch of the first poll() after connect that returned a response
\* is routed to seed_from_history only: none of its messages is processed by
\* the pipeline and nothing is published for it, and exactly one cycle is a
\* seeding cycle.
C1_AsStated ==
    /\ (last.op = "process" => ~hist.fromFirst /\ hist.okPolls > 1)
    /\ (hist.fromFirst => outs = <<>>)
    /\ hist.seeds <= 1

\* C11: an exception raised while a cycle is under way is caught by the
\* loop: it waits 10 seconds, returns to the loop test and, unless the flag
\* was cleared meanwhile, starts the next poll; the loop is left only after
\* a stop request (stop() or Ctrl+C), start() having failed apart.
C11_BackoffAndRetry ==
    /\ (last.op = "process" /\ last.raised => pc = "backoff")
    /\ (last.op = "backoff" => pc = "top" /\ last.wait = BACKOFF_WAIT)
    /\ (last.op = "top" /\ last.from = "backoff" /\ last.ran => pc = "poll")
    /\ (pc = "exited" => hist.startFailed \/ hist.stopReq \/ hist.interrupted)

C11_Witness ==
    /\ last.op = "top" /\ last.from = "backoff" /\ pc = "poll"
    /\ ~hist.stopReq /\ ~hist.interrupted

\* C12: once stop() was called, at any point after start() was called, the
\* loop test that follows ends the loop, so no further poll is started, and
\* a loop that has run ends with the reader's session closed.
C12_AsStated ==
    /\ (hist.stopReq /\ last.op = "top" => pc = "exited")
    /\ (hist.stopReq /\ hist.ran /\ pc = "exited" => ~session_open)

\* C13: stop() never closes the reader's session while a request of poll()
\* is on the wire.
C13_AsStated == hist.stopReq => ~hist.inFlight

\* C14: when the stream or its chat id is not resolved, or connect() fails,
\* start() ends with running never set and no poll() made.
C14_FatalStartup ==
    hist.startFailed =>
        /\ pc = "exited"
        /\ ~running /\ ~hist.ran
        /\ hist.polls = 0 /\ initial_fetch

C14_Witness ==
    /\ hist.startFailed /\ last.op = "start" /\ last.ret = "ConnectionError"
    /\ pc = "exited" /\ ~hist.stopReq

\* a publish attempted for the last message had this outcome
PublishEnded(res) ==
    last.op = "process" /\ \E i \in DOMAIN last.results : last.results[i] = res

\* C31: when the external capability rejects a publish for lack of
\* permission, the rejection is not propagated as a pipeline error and a chat
\* message describing the restriction is published after it.
C31_AsStated ==
    last.op = "process" =>
        \A i \in DOMAIN last.results :
            last.results[i] = "rejected" =>
                /\ ~last.raised
                /\ \E j \in DOMAIN outs : j > i /\ outs[j] = "denied"

\* C32: a failed publish does not alter pipeline state: the viewer set, the
\* store, the CooldownTable, the CommandTable and the loop state after it are
\* those a successful publish of the same message leaves.
C32_AsStated ==
    (PublishEnded("rejected") \/ PublishEnded("raised")) => last.asSent

\* C36: when the handling of a message of a batch raises, the messages after
\* it in the batch are still to be passed to the per-message pipeline.
C36_AsStated ==
    (last.op = "process" /\ last.raised) => Len(batch) = last.left

\* the welcomes among the publishes made for the last message
Welcomes == SelectSeq(outs, LAMBDA k : k = "welcome")

\* C39 as stated: over all poll cycles and all bots started on the same
\* store, no welcome is published for an author a welcome was published for
\* before, none for the bot's or the owner's id, and the author is in the
\* viewer set when the welcome is published.
C39_AsStated ==
    (last.op = "process" /\ last.greeted) =>
        /\ ~last.againEver
        /\ last.msg.channel_id \notin {bot_channel_id, owner_channel_id}
        /\ last.recorded

\* C39 amended: within the lifetime of one bot at most one welcome is
\* published per author id, whatever the outcome of the publish, none for
\* the bot's or the owner's id and none for an id the store held when the
\* tracker was constructed; the author is in the viewer set when the
\* welcome is published.
C39_OncePerLifetime ==
    last.op = "process" =>
        /\ Len(Welcomes) <= 1
        /\ last.greeted <=> Len(Welcomes) = 1
        /\ last.greeted =>
              /\ ~last.again
              /\ ~last.stored
              /\ last.msg.channel_id \notin {bot_channel_id, owner_channel_id}
              /\ last.recorded

\* a bot started again on the store meets an author welcomed by an earlier
\* bot and stored since, and publishes no welcome
C39_Witness ==
    /\ last.op = "process" /\ hist.lives > 1
    /\ last.before /\ last.stored /\ ~last.greeted
    /\ last.msg.channel_id \notin {bot_channel_id, owner_channel_id}

\* C33: poll() turns an event into a message only if it is a chat-addition
\* event with a plain text message whose id, author id and non-empty text
\* are present; no event of a response makes the poll fail.
C33_AsStated ==
    (last.op = "poll" /\ last.connected /\ last.fault = "none") =>
        /\ last.failure # "actions"
        /\ last.unfit = {}

\* C35: a poll() that ends in its degrade-to-empty outcome leaves the
\* SeenSet as it was before the call.
C35_AsStated ==
    (last.op = "poll" /\ last.connected /\ last.failure # "none"
       /\ last.count = 0 /\ last.interval = FALLBACK_WAIT)
        => seen_ids = last.before

\* C34 as stated: after any sequence of match() and reload() calls the
\* CooldownTable has at most as many entries as the current CommandTable has
\* triggers, and it holds the entries the successful matches created.
C34_AsStated ==
    /\ Cardinality(DOMAIN cooldowns) <= Cardinality(DOMAIN lookup)
    /\ DOMAIN hist.okAt \subseteq DOMAIN cooldowns

\* C34 amended: the CooldownTable holds an entry for exactly the triggers
\* for which a match() has succeeded since construction, each a trigger of
\* the CommandTable in use at that call; no reload removes an entry.
C34_NeverPruned ==
    /\ DOMAIN cooldowns = DOMAIN hist.okAt
    /\ (last.op = "match" /\ last.ret # None) =>
           last.known /\ last.word \in DOMAIN cooldowns

\* after a reload the table holds more entries than the CommandTable now
\* in use has triggers
C34_Witness ==
    /\ last.op = "reload" /\ ~last.raised
    /\ Cardinality(DOMAIN cooldowns) > Cardinality(DOMAIN lookup)
    /\ \E w \in DOMAIN cooldowns : w \in last.before /\ w \notin DOMAIN lookup

\* C37: at most one thread created by the manager is alive at a time, and a
\* start() issued while such a thread is alive is refused.
C37_AsStated ==
    /\ Cardinality(AliveThreads) <= 1
    /\ (last.op = "start" /\ last.alive # {}) => ~last.success

\* C38: status() reports running while a bot of the manager is in its
\* polling loop and was not told to stop, and the finally of a thread leaves
\* _bot alone when it holds the bot of another thread.
C38_AsStated ==
    /\ (last.op = "status" /\ last.polling # {}) => last.running
    /\ (last.op = "finally" /\ last.bot \notin {0, last.thread}) =>
           manager.bot = last.bot

====
